---- MODULE Spec2Model ----
(***************************************************************************)
(* CIDRGuardian: the allocation engine (pool.go) over the in-memory        *)
(* storage (memory_storage.go).                                            *)
(*                                                                         *)
(* Go strings are modelled as sequences of byte values, so that sorting    *)
(* (sort.Strings), formatting (ip.String, fmt.Sprintf) and parsing         *)
(* (net.ParseIP, net.ParseCIDR, strings.SplitN) are computed as the code   *)
(* computes them.  An IPv4 address (net.IP) is a sequence of four bytes.   *)
(***************************************************************************)
EXTENDS Integers, Sequences, FiniteSets, TLC

VARIABLES
    available,      \* MemoryIPStorage.available: the set of keys of the map
    allocated,      \* MemoryIPStorage.allocated: ip string -> description
    managedCIDRs,   \* CIDRGuardian.managedCIDRs: cidr string -> CIDRInfo
    last,           \* the observed call: operation, arguments, results, state before it
    prev,           \* the observed call before last, when last undoes it
    ctxDone,        \* the callers' context has been cancelled (ctx.Err() # nil)
    calls,          \* the calls in progress, one per concurrent caller
    mu              \* CIDRGuardian.mu: its writer (0: none) and its readers

vars == <<available, allocated, managedCIDRs, last, prev, ctxDone, calls, mu>>

-----------------------------------------------------------------------------
(* Byte strings *)

\* strconv / fmt "%d" of a non-negative integer
RECURSIVE Itoa(_)
Itoa(n) == IF n < 10 THEN <<48 + n>> ELSE Itoa(n \div 10) \o <<48 + (n % 10)>>

\* A mutation of StrLess: the shorter text first, texts of one length bytewise
RECURSIVE StrLessByLength(_, _)
StrLessByLength(s, t) ==
    IF Len(s) # Len(t) THEN Len(s) < Len(t)
    ELSE IF s = <<>> THEN FALSE
    ELSE IF s[1] # t[1] THEN s[1] < t[1]
    ELSE StrLessByLength(Tail(s), Tail(t))

\* Go's string comparison (bytewise, a proper prefix is smaller)
RECURSIVE StrLess(_, _)
StrLess(s, t) ==
    IF t = <<>> THEN FALSE
    ELSE IF s = <<>> THEN TRUE
    ELSE IF s[1] # t[1] THEN s[1] < t[1]
    ELSE StrLess(Tail(s), Tail(t))

\* sort.Strings applied to the elements of S, as a sequence: the element at
\* position i is the one with i - 1 smaller elements
SortStrings(S) ==
    LET ranked == {<<Cardinality({y \in S : StrLess(y, x)}), x>> : x \in S}
    IN  [i \in 1..Cardinality(S) |-> (CHOOSE p \in ranked : p[1] = i - 1)[2]]

\* strings.Index(s, sep): the first position (1-based) where sep occurs, 0 if none
StrIndex(s, sep) ==
    LET hits == {i \in 1..(Len(s) - Len(sep) + 1) : SubSeq(s, i, i + Len(sep) - 1) = sep}
    IN  IF hits = {} THEN 0 ELSE CHOOSE i \in hits : \A j \in hits : i <= j

\* strings.Contains
StrContains(s, sep) == StrIndex(s, sep) # 0

\* A mutation of SplitN2: splits at the last occurrence
SplitN2Last(s, sep) ==
    LET hits == {i \in 1..(Len(s) - Len(sep) + 1) : SubSeq(s, i, i + Len(sep) - 1) = sep}
        i == CHOOSE k \in hits : \A j \in hits : k >= j
    IN  <<SubSeq(s, 1, i - 1), SubSeq(s, i + Len(sep), Len(s))>>

\* strings.SplitN(s, sep, 2) when s contains sep: <<before, after>> the first occurrence
SplitN2(s, sep) ==
    LET i == StrIndex(s, sep)
    IN  <<SubSeq(s, 1, i - 1), SubSeq(s, i + Len(sep), Len(s))>>

\* The fields of s between occurrences of the byte c
RECURSIVE SplitByte(_, _)
SplitByte(s, c) ==
    LET i == StrIndex(s, <<c>>)
    IN  IF i = 0 THEN <<s>>
        ELSE <<SubSeq(s, 1, i - 1)>> \o SplitByte(SubSeq(s, i + 1, Len(s)), c)

IsDigits(s) == s # <<>> /\ \A i \in 1..Len(s) : s[i] \in 48..57

\* The value of a decimal text
RECURSIVE Atoi(_)
Atoi(s) == IF s = <<>> THEN 0 ELSE 10 * Atoi(SubSeq(s, 1, Len(s) - 1)) + (s[Len(s)] - 48)

\* The separator of the block description encoding, " - "
Sep == <<32, 45, 32>>

-----------------------------------------------------------------------------
(* Address arithmetic: net.IP, net.IPMask, net.IPNet *)

\* a & b on bytes
RECURSIVE AndByte(_, _)
AndByte(a, b) ==
    IF a = 0 \/ b = 0 THEN 0
    ELSE (a % 2) * (b % 2) + 2 * AndByte(a \div 2, b \div 2)

\* net.CIDRMask(bits, 32)
CIDRMask(bits) ==
    [i \in 1..4 |->
        LET ones == IF bits >= 8 * i THEN 8
                    ELSE IF bits <= 8 * (i - 1) THEN 0
                    ELSE bits - 8 * (i - 1)
        IN  256 - 2 ^ (8 - ones)]

\* A mutation of Mask: the address is left as written
MaskNone(ip, mask) == ip

\* ip.Mask(mask)
Mask(ip, mask) == [i \in 1..4 |-> AndByte(ip[i], mask[i])]

\* ipNet.Contains(ip), ipNet = [IP, Mask]
Contains(ipNet, ip) == \A i \in 1..4 : AndByte(ip[i], ipNet.Mask[i]) = AndByte(ipNet.IP[i], ipNet.Mask[i])

\* cloneIP: a copy of the bytes
cloneIP(ip) == [i \in 1..Len(ip) |-> ip[i]]

\* nextIP: increment with carry from the last byte; the maximum address wraps
RECURSIVE nextIPFrom(_, _)
nextIPFrom(ip, i) ==
    IF i = 0 THEN ip
    ELSE LET b == (ip[i] + 1) % 256
         IN  IF b > 0 THEN [ip EXCEPT ![i] = b]
             ELSE nextIPFrom([ip EXCEPT ![i] = b], i - 1)

nextIP(ip) == nextIPFrom(ip, Len(ip))

\* ip.String() of an IPv4 address: dotted decimal
IPString(ip) ==
    Itoa(ip[1]) \o <<46>> \o Itoa(ip[2]) \o <<46>> \o Itoa(ip[3]) \o <<46>> \o Itoa(ip[4])

\* The result of a failed parse (nil)
NoIP == <<>>

\* net.ParseIP for dotted-decimal IPv4 text: four decimal fields 0..255 without
\* leading zeros; anything else is nil (IPv6 text is outside the model's inputs)
ParseIP(s) ==
    LET f == SplitByte(s, 46)
        okField(x) == /\ IsDigits(x)
                      /\ Len(x) <= 3
                      /\ (Len(x) > 1 => x[1] # 48)
                      /\ Atoi(x) <= 255
    IN  IF Len(f) = 4 /\ \A i \in 1..4 : okField(f[i])
        THEN [i \in 1..4 |-> Atoi(f[i])]
        ELSE NoIP

\* net.ParseCIDR: [ok, ip (the address as written), ipNet (masked address and mask)]
ParseCIDR(s) ==
    LET i    == StrIndex(s, <<47>>)
        addr == SubSeq(s, 1, i - 1)
        m    == SubSeq(s, i + 1, Len(s))
        ip   == ParseIP(addr)
        bad  == [ok |-> FALSE, ip |-> NoIP, ipNet |-> [IP |-> NoIP, Mask |-> NoIP]]
    IN  IF i = 0 \/ ip = NoIP \/ ~IsDigits(m) \/ Len(m) > 3 THEN bad
        ELSE IF Atoi(m) > 32 THEN bad
        ELSE [ok |-> TRUE, ip |-> ip,
              ipNet |-> [IP |-> Mask(ip, CIDRMask(Atoi(m))), Mask |-> CIDRMask(Atoi(m))]]

\* The first n addresses, at most, visited by
\*   for ip := start; ipNet.Contains(ip); nextIP(ip)
RECURSIVE WalkUpTo(_, _, _)
WalkUpTo(ipNet, ip, n) ==
    IF n > 0 /\ Contains(ipNet, ip)
    THEN <<ip>> \o WalkUpTo(ipNet, nextIP(ip), n - 1)
    ELSE <<>>

\* The addresses visited by  for ip := start; ipNet.Contains(ip); nextIP(ip),
\* collected sixteen at a time
RECURSIVE Walk(_, _)
Walk(ipNet, ip) ==
    LET run == WalkUpTo(ipNet, ip, 16)
    IN  IF Len(run) < 16 THEN run ELSE run \o Walk(ipNet, nextIP(run[16]))

\* fmt.Sprintf("%s/%d", startIP, bits)
FormatCIDR(ipStr, bits) == ipStr \o <<47>> \o Itoa(bits)

\* A mutation of FormatBlockDescription: the description alone
FormatDescriptionOnly(cidr, description) == description

\* fmt.Sprintf("%s - %s", cidr, description)
FormatBlockDescription(cidr, description) == cidr \o Sep \o description

-----------------------------------------------------------------------------
(* Errors.  kind names the message, arg the text formatted into it. *)

Nil == [kind |-> "nil", arg |-> <<>>]

Err(kind, arg) == [kind |-> kind, arg |-> arg]

\* A mutation of ctxErr: a cancelled context goes unnoticed
ctxErrIgnored(ctx) == Nil

\* ctx.Err(): a context is "background" or "canceled"
ctxErr(ctx) == IF ctx = "canceled" THEN Err("context canceled", <<>>) ELSE Nil

\* A mutation of IsAlreadyAllocatedErr: every error is taken for "already allocated"
IsAnyErr(err) == TRUE

\* strings.Contains(err.Error(), "已被分配") || strings.Contains(err.Error(), "already allocated"):
\* among the messages of the engine and of the in-memory storage only AddIP's
\* "IP %s 已被分配" holds either phrase
IsAlreadyAllocatedErr(err) == err.kind = "IP already allocated"

-----------------------------------------------------------------------------
(* MemoryIPStorage.  s is a record with the fields available and allocated; *)
(* every operation is one critical section of the storage mutex and         *)
(* returns the record after it and its error.                               *)

\* make(map[string]string)
EmptyMap == [k \in {} |-> <<>>]

\* m[k] = v
MapPut(m, k, v) == [x \in DOMAIN m \cup {k} |-> IF x = k THEN v ELSE m[x]]

\* delete(m, k)
MapDelete(m, k) == [x \in DOMAIN m \ {k} |-> m[x]]

\* A mutation of StorageAddIP: no check of the allocated map
StorageAddIPUnchecked(s, ctx, ip) ==
    IF ctxErr(ctx) # Nil THEN [s |-> s, err |-> ctxErr(ctx)]
    ELSE [s |-> [s EXCEPT !.available = @ \cup {ip}], err |-> Nil]

StorageAddIP(s, ctx, ip) ==
    IF ctxErr(ctx) # Nil THEN [s |-> s, err |-> ctxErr(ctx)]
    ELSE IF ip \in DOMAIN s.allocated
    THEN [s |-> s, err |-> Err("IP already allocated", ip)]
    ELSE [s |-> [s EXCEPT !.available = @ \cup {ip}], err |-> Nil]

\* A mutation of StorageRemoveIP: no check that the address is available
StorageRemoveIPUnchecked(s, ctx, ip) ==
    IF ctxErr(ctx) # Nil THEN [s |-> s, err |-> ctxErr(ctx)]
    ELSE [s |-> [s EXCEPT !.available = @ \ {ip}], err |-> Nil]

\* A mutation of StorageRemoveIP: the context is read after the deletion
StorageRemoveIPLate(s, ctx, ip) ==
    IF ip \notin s.available
    THEN [s |-> s, err |-> Err("IP not in available pool", ip)]
    ELSE [s |-> [s EXCEPT !.available = @ \ {ip}], err |-> ctxErr(ctx)]

StorageRemoveIP(s, ctx, ip) ==
    IF ctxErr(ctx) # Nil THEN [s |-> s, err |-> ctxErr(ctx)]
    ELSE IF ip \notin s.available
    THEN [s |-> s, err |-> Err("IP not in available pool", ip)]
    ELSE [s |-> [s EXCEPT !.available = @ \ {ip}], err |-> Nil]

\* A mutation of IsIPAvailable: every address is reported available
IsIPAvailableAlways(s, ctx, ip) ==
    IF ctxErr(ctx) # Nil THEN [val |-> FALSE, err |-> ctxErr(ctx)]
    ELSE [val |-> TRUE, err |-> Nil]

IsIPAvailable(s, ctx, ip) ==
    IF ctxErr(ctx) # Nil THEN [val |-> FALSE, err |-> ctxErr(ctx)]
    ELSE [val |-> ip \in s.available, err |-> Nil]

\* A mutation of GetAvailableIPs: the keys of the available map in descending order
GetAvailableIPsDescending(s, ctx) ==
    IF ctxErr(ctx) # Nil THEN [val |-> <<>>, err |-> ctxErr(ctx)]
    ELSE LET sorted == SortStrings(s.available)
         IN  [val |-> [i \in 1..Len(sorted) |-> sorted[Len(sorted) + 1 - i]], err |-> Nil]

\* The keys of the available map, sorted by sort.Strings
GetAvailableIPs(s, ctx) ==
    IF ctxErr(ctx) # Nil THEN [val |-> <<>>, err |-> ctxErr(ctx)]
    ELSE [val |-> SortStrings(s.available), err |-> Nil]

\* A mutation of StorageAllocateIP: the address is recorded as allocated without the
\* check that it is in available
StorageAllocateIPUnchecked(s, ctx, ip, description) ==
    IF ctxErr(ctx) # Nil THEN [s |-> s, err |-> ctxErr(ctx)]
    ELSE [s |-> [s EXCEPT !.available = @ \ {ip},
                          !.allocated = MapPut(@, ip, description)],
          err |-> Nil]

StorageAllocateIP(s, ctx, ip, description) ==
    IF ctxErr(ctx) # Nil THEN [s |-> s, err |-> ctxErr(ctx)]
    ELSE IF ip \notin s.available
    THEN [s |-> s, err |-> Err("IP not in available pool", ip)]
    ELSE [s |-> [s EXCEPT !.available = @ \ {ip},
                          !.allocated = MapPut(@, ip, description)],
          err |-> Nil]

\* A mutation of StorageDeallocateIP: the address is not put back into available
StorageDeallocateIPDrop(s, ctx, ip) ==
    IF ctxErr(ctx) # Nil THEN [s |-> s, err |-> ctxErr(ctx)]
    ELSE IF ip \notin DOMAIN s.allocated
    THEN [s |-> s, err |-> Err("IP not in allocated pool", ip)]
    ELSE [s |-> [s EXCEPT !.allocated = MapDelete(@, ip)], err |-> Nil]

StorageDeallocateIP(s, ctx, ip) ==
    IF ctxErr(ctx) # Nil THEN [s |-> s, err |-> ctxErr(ctx)]
    ELSE IF ip \notin DOMAIN s.allocated
    THEN [s |-> s, err |-> Err("IP not in allocated pool", ip)]
    ELSE [s |-> [s EXCEPT !.allocated = MapDelete(@, ip),
                          !.available = @ \cup {ip}],
          err |-> Nil]

\* A copy of the allocated map
GetAllocatedIPs(s, ctx) ==
    IF ctxErr(ctx) # Nil THEN [val |-> EmptyMap, err |-> ctxErr(ctx)]
    ELSE [val |-> s.allocated, err |-> Nil]

AvailableCount(s) == Cardinality(s.available)

AllocatedCount(s) == Cardinality(DOMAIN s.allocated)

-----------------------------------------------------------------------------
(* CIDRGuardian.  s is a record with the fields available, allocated and     *)
(* managedCIDRs; an operation returns the record after it, its error and its *)
(* result (ret).                                                             *)

Result(s, err, ret) == [s |-> s, err |-> err, ret |-> ret]

\* The description ExpandPool registers: "扩展的网段" (UTF-8)
ExpandDescription ==
    <<230, 137, 169, 229, 177, 149, 231, 154, 132, 231, 189, 145, 230, 174, 181>>

\* for _, addedIP := range addedIPs { _ = g.storage.RemoveIP(ctx, addedIP) }
RECURSIVE RollbackAdded(_, _, _, _)
RollbackAdded(s, ctx, addedIPs, i) ==
    IF i > Len(addedIPs) THEN s
    ELSE RollbackAdded(StorageRemoveIP(s, ctx, addedIPs[i]).s, ctx, addedIPs, i + 1)

\* One iteration of AddCIDR's loop, for the address ip: [s, err, addedIPs];
\* err # Nil when the loop returns from this iteration
AddCIDRStep(s, ctx, ip, addedIPs) ==
    IF ctxErr(ctx) # Nil
    THEN [s |-> RollbackAdded(s, ctx, addedIPs, 1), err |-> ctxErr(ctx),
          addedIPs |-> addedIPs]
    ELSE LET ipStr == IPString(ip)
             r     == StorageAddIP(s, ctx, ipStr)
         IN  IF r.err # Nil
             THEN IF ~IsAlreadyAllocatedErr(r.err)
                  THEN [s |-> RollbackAdded(r.s, ctx, addedIPs, 1), err |-> r.err,
                        addedIPs |-> addedIPs]
                  ELSE [s |-> r.s, err |-> Nil, addedIPs |-> addedIPs]
             ELSE [s |-> r.s, err |-> Nil, addedIPs |-> Append(addedIPs, ipStr)]

\* AddCIDR's loop over ipList[lo..hi], in order: the iterations of the first half,
\* then, unless one of them returned, those of the second half
RECURSIVE AddCIDRLoop(_, _, _, _, _, _)
AddCIDRLoop(s, ctx, ipList, lo, hi, addedIPs) ==
    IF lo > hi THEN [s |-> s, err |-> Nil, addedIPs |-> addedIPs]
    ELSE IF lo = hi THEN AddCIDRStep(s, ctx, ipList[lo], addedIPs)
    ELSE LET mid   == (lo + hi) \div 2
             first == AddCIDRLoop(s, ctx, ipList, lo, mid, addedIPs)
         IN  IF first.err # Nil THEN first
             ELSE AddCIDRLoop(first.s, ctx, ipList, mid + 1, hi, first.addedIPs)

DoAddCIDR(s, ctx, cidr, description) ==
    LET p == ParseCIDR(cidr)
    IN  IF ctxErr(ctx) # Nil THEN Result(s, ctxErr(ctx), <<>>)
        ELSE IF ~p.ok THEN Result(s, Err("invalid CIDR format", cidr), <<>>)
        ELSE IF cidr \in DOMAIN s.managedCIDRs
        THEN Result(s, Err("CIDR already managed", cidr), <<>>)
        ELSE LET ipList == Walk(p.ipNet, cloneIP(Mask(p.ip, p.ipNet.Mask)))
                 r      == AddCIDRLoop(s, ctx, ipList, 1, Len(ipList), <<>>)
             IN  IF r.err # Nil THEN Result(r.s, r.err, <<>>)
                 ELSE Result([r.s EXCEPT !.managedCIDRs =
                                 MapPut(@, cidr, [CIDR |-> cidr,
                                                  Description |-> description,
                                                  IPNet |-> p.ipNet])],
                             Nil, <<>>)

\* removeCIDRWithoutLock's loop over the walk from index i: [s, err]
RECURSIVE RemoveCIDRLoop(_, _, _, _)
RemoveCIDRLoop(s, ctx, ips, i) ==
    IF i > Len(ips) THEN [s |-> s, err |-> Nil]
    ELSE IF ctxErr(ctx) # Nil THEN [s |-> s, err |-> ctxErr(ctx)]
    ELSE LET a == IsIPAvailable(s, ctx, IPString(ips[i]))
         IN  IF a.err # Nil THEN [s |-> s, err |-> a.err]
             ELSE IF a.val
             THEN LET r == StorageRemoveIP(s, ctx, IPString(ips[i]))
                  IN  IF r.err # Nil THEN [s |-> r.s, err |-> r.err]
                      ELSE RemoveCIDRLoop(r.s, ctx, ips, i + 1)
             ELSE RemoveCIDRLoop(s, ctx, ips, i + 1)

\* A mutation of removeCIDRWithoutLock: the registry entry is deleted, the pool is not drained
removeCIDRWithoutDrain(s, ctx, cidr) ==
    IF cidr \notin DOMAIN s.managedCIDRs
    THEN Result(s, Err("CIDR not managed", cidr), <<>>)
    ELSE Result([s EXCEPT !.managedCIDRs = MapDelete(@, cidr)], Nil, <<>>)

removeCIDRWithoutLock(s, ctx, cidr) ==
    IF cidr \notin DOMAIN s.managedCIDRs
    THEN Result(s, Err("CIDR not managed", cidr), <<>>)
    ELSE LET cidrInfo == s.managedCIDRs[cidr]
             ips      == Walk(cidrInfo.IPNet,
                              cloneIP(Mask(cidrInfo.IPNet.IP, cidrInfo.IPNet.Mask)))
             r        == RemoveCIDRLoop(s, ctx, ips, 1)
         IN  IF r.err # Nil THEN Result(r.s, r.err, <<>>)
             ELSE Result([r.s EXCEPT !.managedCIDRs = MapDelete(@, cidr)], Nil, <<>>)

DoRemoveCIDR(s, ctx, cidr) == removeCIDRWithoutLock(s, ctx, cidr)

\* ExpandPool's loop over the walk from index i: [s, err]
RECURSIVE ExpandPoolLoop(_, _, _, _)
ExpandPoolLoop(s, ctx, ips, i) ==
    IF i > Len(ips) THEN [s |-> s, err |-> Nil]
    ELSE IF ctxErr(ctx) # Nil THEN [s |-> s, err |-> ctxErr(ctx)]
    ELSE LET al == GetAllocatedIPs(s, ctx)
         IN  IF al.err # Nil THEN [s |-> s, err |-> al.err]
             ELSE IF IPString(ips[i]) \notin DOMAIN al.val
             THEN LET r == StorageAddIP(s, ctx, IPString(ips[i]))
                  IN  IF r.err # Nil THEN [s |-> r.s, err |-> r.err]
                      ELSE ExpandPoolLoop(r.s, ctx, ips, i + 1)
             ELSE ExpandPoolLoop(s, ctx, ips, i + 1)

DoExpandPool(s, ctx, cidr) ==
    LET p == ParseCIDR(cidr)
    IN  IF ~p.ok THEN Result(s, Err("invalid CIDR format", cidr), <<>>)
        ELSE LET r == ExpandPoolLoop(s, ctx,
                          Walk(p.ipNet, cloneIP(Mask(p.ipNet.IP, p.ipNet.Mask))), 1)
             IN  IF r.err # Nil THEN Result(r.s, r.err, <<>>)
                 ELSE DoAddCIDR(r.s, ctx, cidr, ExpandDescription)

DoAddSingleIP(s, ctx, ip) ==
    IF ParseIP(ip) = NoIP THEN Result(s, Err("invalid IP format", ip), <<>>)
    ELSE IF ctxErr(ctx) # Nil THEN Result(s, ctxErr(ctx), <<>>)
    ELSE LET r == StorageAddIP(s, ctx, ip) IN Result(r.s, r.err, <<>>)

DoRemoveSingleIP(s, ctx, ip) ==
    IF ctxErr(ctx) # Nil THEN Result(s, ctxErr(ctx), <<>>)
    ELSE LET r == StorageRemoveIP(s, ctx, ip) IN Result(r.s, r.err, <<>>)

DoAllocateIP(s, ctx, ipStr, description) ==
    LET r == StorageAllocateIP(s, ctx, ipStr, description) IN Result(r.s, r.err, <<>>)

DoReleaseIP(s, ctx, ipStr) ==
    LET r == StorageDeallocateIP(s, ctx, ipStr) IN Result(r.s, r.err, <<>>)

DoGetNextAvailableIP(s, ctx, description) ==
    LET ips == GetAvailableIPs(s, ctx)
    IN  IF ips.err # Nil THEN Result(s, ips.err, <<>>)
        ELSE IF Len(ips.val) = 0 THEN Result(s, Err("no available IP", <<>>), <<>>)
        ELSE LET r == StorageAllocateIP(s, ctx, ips.val[1], description)
             IN  IF r.err # Nil THEN Result(r.s, r.err, <<>>)
                 ELSE Result(r.s, Nil, ips.val[1])

\* The elements of a sequence
Range(seq) == {seq[i] : i \in 1..Len(seq)}

\* sort.Strings on a slice of distinct strings
SortSlice(seq) == SortStrings(Range(seq))

\* AllocateCIDR step 10: the first error of the availability check over ips from index i
RECURSIVE AllocateCheckLoop(_, _, _, _)
AllocateCheckLoop(s, ctx, ips, i) ==
    IF i > Len(ips) THEN Nil
    ELSE LET a == IsIPAvailable(s, ctx, IPString(ips[i]))
         IN  IF a.err # Nil THEN a.err
             ELSE IF ~a.val THEN Err("IP unavailable", IPString(ips[i]))
             ELSE AllocateCheckLoop(s, ctx, ips, i + 1)

\* AllocateCIDR step 12: remove the other addresses, deallocating startIP on a failure
RECURSIVE AllocateRemoveLoop(_, _, _, _, _)
AllocateRemoveLoop(s, ctx, ips, i, startIP) ==
    IF i > Len(ips) THEN [s |-> s, err |-> Nil]
    ELSE IF IPString(ips[i]) # startIP
    THEN LET r == StorageRemoveIP(s, ctx, IPString(ips[i]))
         IN  IF r.err # Nil
             THEN [s |-> StorageDeallocateIP(r.s, ctx, startIP).s, err |-> r.err]
             ELSE AllocateRemoveLoop(r.s, ctx, ips, i + 1, startIP)
    ELSE AllocateRemoveLoop(s, ctx, ips, i + 1, startIP)

\* A mutation of BlockWalk: the loop stops one address early
BlockWalkShort(ipNet, size) ==
    LET w == Walk(ipNet, cloneIP(ipNet.IP))
    IN  IF Len(w) <= size - 1 THEN w ELSE SubSeq(w, 1, size - 1)

\* The addresses visited by
\*   for ip := cloneIP(ipNet.IP); ipNet.Contains(ip) && ipCount < size; nextIP(ip)
BlockWalk(ipNet, size) ==
    LET w == Walk(ipNet, cloneIP(ipNet.IP))
    IN  IF Len(w) <= size THEN w ELSE SubSeq(w, 1, size)

DoAllocateCIDR(s, ctx, bits, description) ==
    IF ctxErr(ctx) # Nil THEN Result(s, ctxErr(ctx), <<>>)
    ELSE IF bits < 0 \/ bits > 32 THEN Result(s, Err("invalid prefix bits", <<>>), <<>>)
    ELSE
    LET availableIPs == GetAvailableIPs(s, ctx)
        size         == 2 ^ (32 - bits)
    IN
    IF availableIPs.err # Nil THEN Result(s, availableIPs.err, <<>>)
    ELSE IF Len(availableIPs.val) < size THEN Result(s, Err("not enough IPs", <<>>), <<>>)
    ELSE
    LET sorted == SortSlice(availableIPs.val)
        Aligned(ipStr) ==
            LET ip == ParseIP(ipStr)
            IN  /\ ip # NoIP
                /\ IPString(cloneIP(Mask(ip, CIDRMask(bits)))) = ipStr
        candidateStartIPs == SelectSeq(sorted, Aligned)
    IN
    IF Len(candidateStartIPs) = 0 THEN Result(s, Err("no aligned start IP", <<>>), <<>>)
    ELSE
    LET startIP == SortSlice(candidateStartIPs)[1]
        cidr    == FormatCIDR(startIP, bits)
        ipNet   == ParseCIDR(cidr).ipNet
        ips     == BlockWalk(ipNet, size)
        chk     == AllocateCheckLoop(s, ctx, ips, 1)
    IN
    IF chk # Nil THEN Result(s, chk, <<>>)
    ELSE
    LET a == StorageAllocateIP(s, ctx, startIP, FormatBlockDescription(cidr, description))
    IN
    IF a.err # Nil THEN Result(a.s, a.err, <<>>)
    ELSE
    LET r == AllocateRemoveLoop(a.s, ctx, ips, 1, startIP)
    IN  IF r.err # Nil THEN Result(r.s, r.err, <<>>)
        ELSE Result(r.s, Nil, cidr)

\* ReleaseCIDR's loop over the walk from index i; al is the map read before the loop: [s, err]
RECURSIVE ReleaseCIDRLoop(_, _, _, _, _)
ReleaseCIDRLoop(s, ctx, ips, i, al) ==
    IF i > Len(ips) THEN [s |-> s, err |-> Nil]
    ELSE IF ctxErr(ctx) # Nil THEN [s |-> s, err |-> ctxErr(ctx)]
    ELSE LET ipStr == IPString(ips[i])
             inManagedRange ==
                 \E k \in DOMAIN s.managedCIDRs : Contains(s.managedCIDRs[k].IPNet, ips[i])
         IN  IF inManagedRange /\ ipStr \notin DOMAIN al
             THEN LET r == StorageAddIP(s, ctx, ipStr)
                  IN  IF r.err # Nil /\ ~IsAlreadyAllocatedErr(r.err)
                      THEN [s |-> r.s, err |-> r.err]
                      ELSE ReleaseCIDRLoop(r.s, ctx, ips, i + 1, al)
             ELSE ReleaseCIDRLoop(s, ctx, ips, i + 1, al)

\* A mutation of DoReleaseCIDR: no check that the network address is allocated
DoReleaseCIDRUnchecked(s, ctx, cidr) ==
    LET p == ParseCIDR(cidr)
    IN  IF ctxErr(ctx) # Nil THEN Result(s, ctxErr(ctx), <<>>)
        ELSE IF ~p.ok THEN Result(s, Err("invalid CIDR format", cidr), <<>>)
        ELSE LET r == ReleaseCIDRLoop(s, ctx,
                          Walk(p.ipNet, cloneIP(Mask(p.ipNet.IP, p.ipNet.Mask))), 1,
                          s.allocated)
                 d == StorageDeallocateIP(r.s, ctx, IPString(Mask(p.ipNet.IP, p.ipNet.Mask)))
             IN  Result(d.s, d.err, <<>>)

DoReleaseCIDR(s, ctx, cidr) ==
    LET p == ParseCIDR(cidr)
    IN
    IF ctxErr(ctx) # Nil THEN Result(s, ctxErr(ctx), <<>>)
    ELSE IF ~p.ok THEN Result(s, Err("invalid CIDR format", cidr), <<>>)
    ELSE
    LET networkAddr == IPString(Mask(p.ipNet.IP, p.ipNet.Mask))
        al          == GetAllocatedIPs(s, ctx)
    IN
    IF al.err # Nil THEN Result(s, al.err, <<>>)
    ELSE IF networkAddr \notin DOMAIN al.val
    THEN Result(s, Err("CIDR not allocated", cidr), <<>>)
    ELSE
    LET r == ReleaseCIDRLoop(s, ctx,
                 Walk(p.ipNet, cloneIP(Mask(p.ipNet.IP, p.ipNet.Mask))), 1, al.val)
    IN
    IF r.err # Nil THEN Result(r.s, r.err, <<>>)
    ELSE LET d == StorageDeallocateIP(r.s, ctx, networkAddr)
         IN  Result(d.s, d.err, <<>>)

\* A mutation of UsedCIDRs: every description yields an entry
UsedCIDRsUnfiltered(al) ==
    LET pairs == {<<d, <<>>>> : d \in {al[ip] : ip \in DOMAIN al}}
        keys  == {pr[1] : pr \in pairs}
    IN  {f \in [keys -> {pr[2] : pr \in pairs}] : \A k \in keys : <<k, f[k]>> \in pairs}

\* The maps GetUsedCIDRs can build from the allocated map al: one entry per text found
\* before the separator; when several descriptions give the same key, the map's
\* iteration order decides whose remainder is kept
UsedCIDRs(al) ==
    LET descs == {al[ip] : ip \in DOMAIN al}
        pairs == {SplitN2(d, Sep) : d \in {x \in descs : StrContains(x, Sep)}}
        keys  == {pr[1] : pr \in pairs}
    IN  {f \in [keys -> {pr[2] : pr \in pairs}] : \A k \in keys : <<k, f[k]>> \in pairs}

\* The possible outcomes of GetUsedCIDRs: [err, used]
DoGetUsedCIDRs(s, ctx) ==
    LET al == GetAllocatedIPs(s, ctx)
    IN  IF ctxErr(ctx) # Nil THEN {[err |-> ctxErr(ctx), used |-> EmptyMap]}
        ELSE IF al.err # Nil THEN {[err |-> al.err, used |-> EmptyMap]}
        ELSE {[err |-> Nil, used |-> f] : f \in UsedCIDRs(al.val)}

\* GetManagedCIDRs: cidr -> description
DoGetManagedCIDRs(s, ctx) ==
    IF ctxErr(ctx) # Nil THEN Result(s, ctxErr(ctx), EmptyMap)
    ELSE Result(s, Nil, [k \in DOMAIN s.managedCIDRs |-> s.managedCIDRs[k].Description])

\* GetAvailableCIDRs: the /24 networks of the available addresses, sorted
DoGetAvailableCIDRs(s, ctx) ==
    IF ctxErr(ctx) # Nil THEN Result(s, ctxErr(ctx), <<>>)
    ELSE LET availableIPs == GetAvailableIPs(s, ctx)
         IN  IF availableIPs.err # Nil THEN Result(s, availableIPs.err, <<>>)
             ELSE IF Len(availableIPs.val) = 0 THEN Result(s, Nil, <<>>)
             ELSE LET parsed == {x \in Range(availableIPs.val) : ParseIP(x) # NoIP}
                      cidrs  == {FormatCIDR(IPString(Mask(ParseIP(x), CIDRMask(24))), 24) :
                                    x \in parsed}
                  IN  Result(s, Nil, SortStrings(cidrs))

\* CIDRGuardian.AvailableCount
DoAvailableCount(s, ctx) ==
    IF ctxErr(ctx) # Nil THEN Result(s, ctxErr(ctx), 0)
    ELSE Result(s, Nil, AvailableCount(s))

\* CIDRGuardian.AllocatedCount
DoAllocatedCount(s, ctx) ==
    IF ctxErr(ctx) # Nil THEN Result(s, ctxErr(ctx), 0)
    ELSE Result(s, Nil, AllocatedCount(s))

\* The concatenation of the texts of a sequence
RECURSIVE Concat(_)
Concat(texts) == IF texts = <<>> THEN <<>> ELSE Head(texts) \o Concat(Tail(texts))

\* The texts a range loop over the map m can write with
\* fmt.Sprintf("  %s - %s\n", k, m[k]): one per order of iteration;
\* "  无\n" when the map is empty
MapLines(m) ==
    IF DOMAIN m = {} THEN {<<32, 32, 230, 151, 160, 10>>}
    ELSE LET n      == Cardinality(DOMAIN m)
             orders == {o \in [1..n -> DOMAIN m] :
                           \A i, j \in 1..n : i # j => o[i] # o[j]}
         IN  {Concat([i \in 1..n |-> <<32, 32>> \o o[i] \o Sep \o m[o[i]] \o <<10>>]) :
                 o \in orders}

\* The text of the "可用CIDR概览" part of String
OverviewLines(cidrs) ==
    IF Len(cidrs) = 0 THEN <<32, 32, 230, 151, 160, 10>>
    ELSE Concat([i \in 1..Len(cidrs) |-> <<32, 32>> \o cidrs[i] \o <<10>>])

\* The possible outcomes of String: [err, ret]
DoString(s, ctx) ==
    LET managed == DoGetManagedCIDRs(s, ctx)
        counts  == DoAvailableCount(s, ctx)
        allocs  == DoAllocatedCount(s, ctx)
        avail   == DoGetAvailableCIDRs(s, ctx)
    IN  IF managed.err # Nil THEN {[err |-> managed.err, ret |-> <<>>]}
        ELSE UNION {
            IF u.err # Nil THEN {[err |-> u.err, ret |-> <<>>]}
            ELSE IF counts.err # Nil THEN {[err |-> counts.err, ret |-> <<>>]}
            ELSE IF allocs.err # Nil THEN {[err |-> allocs.err, ret |-> <<>>]}
            ELSE IF avail.err # Nil THEN {[err |-> avail.err, ret |-> <<>>]}
            ELSE {[err |-> Nil,
                   ret |-> \* "CIDRGuardian 状态\n" "管理的CIDR:\n"
                           <<67, 73, 68, 82, 71, 117, 97, 114, 100, 105, 97, 110, 32,
                             231, 138, 182, 230, 128, 129, 10>>
                           \o <<231, 174, 161, 231, 144, 134, 231, 154, 132,
                                67, 73, 68, 82, 58, 10>>
                           \o ml
                           \* "\n已分配的CIDR:\n"
                           \o <<10, 229, 183, 178, 229, 136, 134, 233, 133, 141,
                                231, 154, 132, 67, 73, 68, 82, 58, 10>>
                           \o ul
                           \* "\nIP统计:\n  可用IP数量: %d\n  已分配IP数量: %d\n"
                           \o <<10, 73, 80, 231, 187, 159, 232, 174, 161, 58, 10, 32, 32,
                                229, 143, 175, 231, 148, 168, 73, 80, 230, 149, 176,
                                233, 135, 143, 58, 32>>
                           \o Itoa(counts.ret)
                           \o <<10, 32, 32, 229, 183, 178, 229, 136, 134, 233, 133, 141,
                                73, 80, 230, 149, 176, 233, 135, 143, 58, 32>>
                           \o Itoa(allocs.ret) \o <<10>>
                           \* "\n可用CIDR概览:\n"
                           \o <<10, 229, 143, 175, 231, 148, 168, 67, 73, 68, 82,
                                230, 166, 130, 232, 167, 136, 58, 10>>
                           \o OverviewLines(avail.ret)] :
                     ml \in MapLines(managed.ret), ul \in MapLines(u.used)}
            : u \in DoGetUsedCIDRs(s, ctx)}

-----------------------------------------------------------------------------
(* The state machine: one action per public operation, each a whole call.   *)
(* The parameters of an action are the sets its arguments are drawn from.   *)

State == [available |-> available, allocated |-> allocated, managedCIDRs |-> managedCIDRs]

NoCall ==
    [op |-> "none", ctx |-> "background", cidr |-> <<>>, ip |-> <<>>, bits |-> 0,
     description |-> <<>>, err |-> Nil, ret |-> <<>>, used |-> EmptyMap,
     pre |-> [available |-> {}, allocated |-> EmptyMap, managedCIDRs |-> EmptyMap]]

\* The operation whose effect op undoes
Inverse(op) ==
    IF op = "RemoveCIDR" THEN "AddCIDR"
    ELSE IF op = "ReleaseCIDR" THEN "AllocateCIDR"
    ELSE "none"

\* The calls of a behaviour go unrecorded until one is observed; the observed call is
\* the last of the behaviour, or is followed by one more call that undoes it
CanCall(op) ==
    \/ last.op = "none"
    \/ prev.op = "none" /\ last.err = Nil /\ last.op = Inverse(op)

Returned(op, args, r, used) ==
    /\ CanCall(op)
    /\ available' = r.s.available
    /\ allocated' = r.s.allocated
    /\ managedCIDRs' = r.s.managedCIDRs
    /\ \E observed \in (IF last.op = "none" THEN BOOLEAN ELSE {TRUE}) :
        last' = IF observed
                THEN [NoCall EXCEPT !.op = op, !.ctx = args.ctx, !.cidr = args.cidr,
                                    !.ip = args.ip, !.bits = args.bits,
                                    !.description = args.description,
                                    !.err = r.err, !.ret = r.ret, !.used = used,
                                    !.pre = State]
                ELSE NoCall
    /\ prev' = last
    /\ UNCHANGED <<ctxDone, calls, mu>>

Args(ctx, cidr, ip, bits, description) ==
    [ctx |-> ctx, cidr |-> cidr, ip |-> ip, bits |-> bits, description |-> description]

\* The context the callers pass: context.Background() or a context with cancel, which
\* is cancelled at some moment
Contexts == {IF ctxDone THEN "canceled" ELSE "background"}

\* The number of concurrent callers
NumCallers == 2

Procs == 1..NumCallers

\* CIDRGuardian.mu held by nobody
Unlocked == [writer |-> 0, readers |-> {}]

\* A caller that has not called
Idle ==
    [op |-> "none", pc |-> "idle", cidr |-> <<>>, ip |-> <<>>, bits |-> 0,
     description |-> <<>>, ips |-> <<>>, i |-> 0, startIP |-> <<>>, al |-> EmptyMap,
     addedIPs |-> <<>>, err |-> Nil, ret |-> <<>>, log |-> <<>>, result |-> EmptyMap,
     storage |-> "none",
     pre |-> [available |-> {}, allocated |-> EmptyMap, managedCIDRs |-> EmptyMap]]

\* NewCIDRGuardian(ctx, nil): a new MemoryIPStorage and an empty registry
Init ==
    /\ available = {}
    /\ allocated = EmptyMap
    /\ managedCIDRs = EmptyMap
    /\ last = NoCall
    /\ prev = NoCall
    /\ ctxDone = FALSE
    /\ calls = [p \in Procs |-> Idle]
    /\ mu = Unlocked

AddCIDR(cidrs, descriptions) ==
    \E ctx \in Contexts, cidr \in cidrs, description \in descriptions :
        Returned("AddCIDR", Args(ctx, cidr, <<>>, 0, description),
                 DoAddCIDR(State, ctx, cidr, description), EmptyMap)

RemoveCIDR(cidrs) ==
    \E ctx \in Contexts, cidr \in cidrs :
        Returned("RemoveCIDR", Args(ctx, cidr, <<>>, 0, <<>>),
                 DoRemoveCIDR(State, ctx, cidr), EmptyMap)

ExpandPool(cidrs) ==
    \E ctx \in Contexts, cidr \in cidrs :
        Returned("ExpandPool", Args(ctx, cidr, <<>>, 0, <<>>),
                 DoExpandPool(State, ctx, cidr), EmptyMap)

AddSingleIP(ips) ==
    \E ctx \in Contexts, ip \in ips :
        Returned("AddSingleIP", Args(ctx, <<>>, ip, 0, <<>>),
                 DoAddSingleIP(State, ctx, ip), EmptyMap)

RemoveSingleIP(ips) ==
    \E ctx \in Contexts, ip \in ips :
        Returned("RemoveSingleIP", Args(ctx, <<>>, ip, 0, <<>>),
                 DoRemoveSingleIP(State, ctx, ip), EmptyMap)

AllocateIP(ips, descriptions) ==
    \E ctx \in Contexts, ip \in ips, description \in descriptions :
        Returned("AllocateIP", Args(ctx, <<>>, ip, 0, description),
                 DoAllocateIP(State, ctx, ip, description), EmptyMap)

ReleaseIP(ips) ==
    \E ctx \in Contexts, ip \in ips :
        Returned("ReleaseIP", Args(ctx, <<>>, ip, 0, <<>>),
                 DoReleaseIP(State, ctx, ip), EmptyMap)

GetNextAvailableIP(descriptions) ==
    \E ctx \in Contexts, description \in descriptions :
        Returned("GetNextAvailableIP", Args(ctx, <<>>, <<>>, 0, description),
                 DoGetNextAvailableIP(State, ctx, description), EmptyMap)

AllocateCIDR(prefixes, descriptions) ==
    \E ctx \in Contexts, bits \in prefixes, description \in descriptions :
        Returned("AllocateCIDR", Args(ctx, <<>>, <<>>, bits, description),
                 DoAllocateCIDR(State, ctx, bits, description), EmptyMap)

ReleaseCIDR(cidrs) ==
    \E ctx \in Contexts, cidr \in cidrs :
        Returned("ReleaseCIDR", Args(ctx, cidr, <<>>, 0, <<>>),
                 DoReleaseCIDR(State, ctx, cidr), EmptyMap)

GetUsedCIDRs ==
    \E ctx \in Contexts : \E r \in DoGetUsedCIDRs(State, ctx) :
        Returned("GetUsedCIDRs", Args(ctx, <<>>, <<>>, 0, <<>>),
                 Result(State, r.err, <<>>), r.used)

GetManagedCIDRs ==
    \E ctx \in Contexts :
        Returned("GetManagedCIDRs", Args(ctx, <<>>, <<>>, 0, <<>>),
                 DoGetManagedCIDRs(State, ctx), EmptyMap)

GetAvailableCIDRs ==
    \E ctx \in Contexts :
        Returned("GetAvailableCIDRs", Args(ctx, <<>>, <<>>, 0, <<>>),
                 DoGetAvailableCIDRs(State, ctx), EmptyMap)

GuardianAvailableCount ==
    \E ctx \in Contexts :
        Returned("AvailableCount", Args(ctx, <<>>, <<>>, 0, <<>>),
                 DoAvailableCount(State, ctx), EmptyMap)

GuardianAllocatedCount ==
    \E ctx \in Contexts :
        Returned("AllocatedCount", Args(ctx, <<>>, <<>>, 0, <<>>),
                 DoAllocatedCount(State, ctx), EmptyMap)

String ==
    \E ctx \in Contexts : \E r \in DoString(State, ctx) :
        Returned("String", Args(ctx, <<>>, <<>>, 0, <<>>),
                 Result(State, r.err, r.ret), EmptyMap)

\* The methods of MemoryIPStorage called directly

MemAddIP(ips) ==
    \E ctx \in Contexts, ip \in ips :
        LET r == StorageAddIP(State, ctx, ip)
        IN  Returned("MemoryIPStorage.AddIP", Args(ctx, <<>>, ip, 0, <<>>), Result(r.s, r.err, <<>>), EmptyMap)

MemRemoveIP(ips) ==
    \E ctx \in Contexts, ip \in ips :
        LET r == StorageRemoveIP(State, ctx, ip)
        IN  Returned("MemoryIPStorage.RemoveIP", Args(ctx, <<>>, ip, 0, <<>>), Result(r.s, r.err, <<>>), EmptyMap)

MemAllocateIP(ips, descriptions) ==
    \E ctx \in Contexts, ip \in ips, description \in descriptions :
        LET r == StorageAllocateIP(State, ctx, ip, description)
        IN  Returned("MemoryIPStorage.AllocateIP", Args(ctx, <<>>, ip, 0, description),
                     Result(r.s, r.err, <<>>), EmptyMap)

MemDeallocateIP(ips) ==
    \E ctx \in Contexts, ip \in ips :
        LET r == StorageDeallocateIP(State, ctx, ip)
        IN  Returned("MemoryIPStorage.DeallocateIP", Args(ctx, <<>>, ip, 0, <<>>),
                     Result(r.s, r.err, <<>>), EmptyMap)

\* The callers' context is cancelled (cancel() of context.WithCancel)
Cancel ==
    /\ ~ctxDone
    /\ last.op = "none"
    /\ ctxDone' = TRUE
    /\ UNCHANGED <<available, allocated, managedCIDRs, last, prev, calls, mu>>

-----------------------------------------------------------------------------
(* Concurrent callers.  A call of a caller advances by one storage call (each *)
(* is atomic under the storage's mutex) or one critical section of            *)
(* CIDRGuardian.mu at a time; what a call computes between two of them is     *)
(* local to it.  calls[p].pc names the storage call or the lock operation the *)
(* caller p is about to make.                                                 *)

\* The record of a call that has returned
Done(c, err, ret) == [c EXCEPT !.pc = "done", !.err = err, !.ret = ret]

\* A step of a call: the storage and registry after it, the call, the lock
Outcome(s, c, m) == [s |-> s, c |-> c, mu |-> m]

\* The slice of addresses a call holds between its steps: the addresses of ips, each
\* written out as its four bytes
Slice(ips) == [k \in 1..Len(ips) |-> <<ips[k][1], ips[k][2], ips[k][3], ips[k][4]>>]

\* The error of a storage call that fails for a reason of the storage's own: the failure
\* set on the mock storage, an error of the database
StorageFailure == Err("storage failure", <<>>)

\* The storage call with the result r on s, or its failure, which leaves s as it is
Faulty(fault, s, r) == IF fault THEN [s |-> s, err |-> StorageFailure] ELSE r

\* The storage query with the result r, or its failure
FaultyQuery(fault, r) == IF fault THEN [val |-> FALSE, err |-> StorageFailure] ELSE r

\* The call c after its storage call op on the address ip has returned err
Logged(c, op, ip, err) == [c EXCEPT !.log = Append(@, <<op, ip, err.kind>>)]

\* GetNextAvailableIP: GetAvailableIPs, then AllocateIP of the first address
GetNextAvailableIPStep(s, m, c, ctx) ==
    IF c.pc = "GetAvailableIPs"
    THEN LET ips == GetAvailableIPs(s, ctx)
         IN  IF ips.err # Nil THEN Outcome(s, Done(c, ips.err, <<>>), m)
             ELSE IF Len(ips.val) = 0
             THEN Outcome(s, Done(c, Err("no available IP", <<>>), <<>>), m)
             ELSE Outcome(s, [c EXCEPT !.pc = "AllocateIP", !.startIP = ips.val[1]], m)
    ELSE LET r == StorageAllocateIP(s, ctx, c.startIP, c.description)
         IN  IF r.err # Nil THEN Outcome(r.s, Done(c, r.err, <<>>), m)
             ELSE Outcome(r.s, Done(c, Nil, c.startIP), m)

\* AllocateCIDR steps 1 to 9 on the list GetAvailableIPs returns: the block chosen,
\* [err, startIP, cidr, ips]
ChooseBlock(s, ctx, bits) ==
    LET none == [err |-> Nil, startIP |-> <<>>, cidr |-> <<>>, ips |-> <<>>]
    IN
    IF ctxErr(ctx) # Nil THEN [none EXCEPT !.err = ctxErr(ctx)]
    ELSE IF bits < 0 \/ bits > 32 THEN [none EXCEPT !.err = Err("invalid prefix bits", <<>>)]
    ELSE
    LET availableIPs == GetAvailableIPs(s, ctx)
        size         == 2 ^ (32 - bits)
    IN
    IF availableIPs.err # Nil THEN [none EXCEPT !.err = availableIPs.err]
    ELSE IF Len(availableIPs.val) < size THEN [none EXCEPT !.err = Err("not enough IPs", <<>>)]
    ELSE
    LET sorted == SortSlice(availableIPs.val)
        Aligned(ipStr) ==
            LET ip == ParseIP(ipStr)
            IN  /\ ip # NoIP
                /\ IPString(cloneIP(Mask(ip, CIDRMask(bits)))) = ipStr
        candidateStartIPs == SelectSeq(sorted, Aligned)
    IN
    IF Len(candidateStartIPs) = 0 THEN [none EXCEPT !.err = Err("no aligned start IP", <<>>)]
    ELSE
    LET startIP == SortSlice(candidateStartIPs)[1]
        cidr    == FormatCIDR(startIP, bits)
    IN  [err |-> Nil, startIP |-> startIP, cidr |-> cidr,
         ips |-> Slice(BlockWalk(ParseCIDR(cidr).ipNet, size))]

\* AllocateCIDR step 12 from index i: the next address other than startIP is to be
\* removed, or the call returns the block
RECURSIVE AllocateCIDRRemoveFrom(_, _)
AllocateCIDRRemoveFrom(c, i) ==
    IF i > Len(c.ips) THEN Done(c, Nil, c.cidr)
    ELSE IF IPString(c.ips[i]) = c.startIP THEN AllocateCIDRRemoveFrom(c, i + 1)
    ELSE [c EXCEPT !.pc = "RemoveIP", !.i = i]

AllocateCIDRStep(s, m, c, ctx, fault) ==
    CASE c.pc = "GetAvailableIPs" ->
            LET b == ChooseBlock(s, ctx, c.bits)
            IN  IF ctxErr(ctx) = Nil /\ c.bits \in 0..32 /\ fault
                THEN Outcome(s, Done(Logged(c, "GetAvailableIPs", <<>>, StorageFailure),
                                     StorageFailure, <<>>), m)
                ELSE IF b.err # Nil THEN Outcome(s, Done(c, b.err, <<>>), m)
                ELSE Outcome(s, [Logged(c, "GetAvailableIPs", <<>>, Nil)
                                    EXCEPT !.pc = "IsIPAvailable", !.startIP = b.startIP,
                                           !.cidr = b.cidr, !.ips = b.ips, !.i = 1], m)
      [] c.pc = "IsIPAvailable" ->
            LET ipStr == IPString(c.ips[c.i])
                a     == FaultyQuery(fault, IsIPAvailable(s, ctx, ipStr))
                cl    == Logged(c, "IsIPAvailable", ipStr, a.err)
            IN  IF a.err # Nil THEN Outcome(s, Done(cl, a.err, <<>>), m)
                ELSE IF ~a.val
                THEN Outcome(s, Done(cl, Err("IP unavailable", ipStr), <<>>), m)
                ELSE IF c.i < Len(c.ips) THEN Outcome(s, [cl EXCEPT !.i = c.i + 1], m)
                ELSE Outcome(s, [cl EXCEPT !.pc = "AllocateIP"], m)
      [] c.pc = "AllocateIP" ->
            LET a  == Faulty(fault, s,
                             StorageAllocateIP(s, ctx, c.startIP,
                                 FormatBlockDescription(c.cidr, c.description)))
                cl == Logged(c, "AllocateIP", c.startIP, a.err)
            IN  IF a.err # Nil THEN Outcome(a.s, Done(cl, a.err, <<>>), m)
                ELSE Outcome(a.s, AllocateCIDRRemoveFrom(cl, 1), m)
      [] c.pc = "RemoveIP" ->
            LET ipStr == IPString(c.ips[c.i])
                r     == Faulty(fault, s, StorageRemoveIP(s, ctx, ipStr))
                cl    == Logged(c, "RemoveIP", ipStr, r.err)
            IN  IF r.err # Nil
                THEN Outcome(r.s, [cl EXCEPT !.pc = "DeallocateIP", !.err = r.err], m)
                ELSE Outcome(r.s, AllocateCIDRRemoveFrom(cl, c.i + 1), m)
      [] c.pc = "DeallocateIP" ->
            LET d == Faulty(fault, s, StorageDeallocateIP(s, ctx, c.startIP))
            IN  Outcome(d.s, Done(Logged(c, "DeallocateIP", c.startIP, d.err),
                                  c.err, <<>>), m)

\* A mutation of ReleaseCIDRFrom: the network address is deallocated before the last
\* address of the walk is dealt with
ReleaseCIDRFromShort(c, i) ==
    IF i > Len(c.ips) - 1 THEN [c EXCEPT !.pc = "DeallocateIP", !.i = i]
    ELSE [c EXCEPT !.pc = "RLock", !.i = i]

\* ReleaseCIDR's loop from index i: the registry is read for the next address, or the
\* loop is over and the network address is deallocated
ReleaseCIDRFrom(c, i) ==
    IF i > Len(c.ips) THEN [c EXCEPT !.pc = "DeallocateIP", !.i = i]
    ELSE [c EXCEPT !.pc = "RLock", !.i = i]

ReleaseCIDRStep(s, m, c, ctx, fault) ==
    CASE c.pc = "GetAllocatedIPs" ->
            LET p == ParseCIDR(c.cidr)
            IN  IF ctxErr(ctx) # Nil THEN Outcome(s, Done(c, ctxErr(ctx), <<>>), m)
                ELSE IF ~p.ok
                THEN Outcome(s, Done(c, Err("invalid CIDR format", c.cidr), <<>>), m)
                ELSE LET networkAddr == IPString(Mask(p.ipNet.IP, p.ipNet.Mask))
                         al          == IF fault THEN [val |-> EmptyMap, err |-> StorageFailure]
                                        ELSE GetAllocatedIPs(s, ctx)
                         cl          == Logged(c, "GetAllocatedIPs", <<>>, al.err)
                     IN  IF al.err # Nil THEN Outcome(s, Done(cl, al.err, <<>>), m)
                         ELSE IF networkAddr \notin DOMAIN al.val
                         THEN Outcome(s, Done(cl, Err("CIDR not allocated", c.cidr), <<>>), m)
                         ELSE Outcome(s,
                                ReleaseCIDRFrom(
                                    [cl EXCEPT !.startIP = networkAddr, !.al = al.val,
                                               !.ips = Slice(Walk(p.ipNet,
                                                   cloneIP(Mask(p.ipNet.IP, p.ipNet.Mask))))],
                                    1), m)
      [] c.pc = "RLock" ->
            IF ctxErr(ctx) # Nil THEN Outcome(s, Done(c, ctxErr(ctx), <<>>), m)
            ELSE LET inManagedRange ==
                         \E k \in DOMAIN s.managedCIDRs :
                             Contains(s.managedCIDRs[k].IPNet, c.ips[c.i])
                 IN  IF inManagedRange /\ IPString(c.ips[c.i]) \notin DOMAIN c.al
                     THEN Outcome(s, [c EXCEPT !.pc = "AddIP"], m)
                     ELSE Outcome(s, ReleaseCIDRFrom(c, c.i + 1), m)
      [] c.pc = "AddIP" ->
            LET ipStr == IPString(c.ips[c.i])
                r     == Faulty(fault, s, StorageAddIP(s, ctx, ipStr))
                cl    == Logged(c, "AddIP", ipStr, r.err)
            IN  IF r.err # Nil /\ ~IsAlreadyAllocatedErr(r.err)
                THEN Outcome(r.s, Done(cl, r.err, <<>>), m)
                ELSE Outcome(r.s, ReleaseCIDRFrom(cl, c.i + 1), m)
      [] c.pc = "DeallocateIP" ->
            LET d == Faulty(fault, s, StorageDeallocateIP(s, ctx, c.startIP))
            IN  Outcome(d.s, Done(Logged(c, "DeallocateIP", c.startIP, d.err),
                                  d.err, <<>>), m)

\* A mutation of AddCIDRRollbackFrom: the error is returned without the rollback
AddCIDRNoRollback(c, i, err) == Done(c, err, <<>>)

\* AddCIDR's rollback from index i of addedIPs, then the return of err with the unlock
AddCIDRRollbackFrom(c, i, err) ==
    IF i > Len(c.addedIPs) THEN Done(c, err, <<>>)
    ELSE [c EXCEPT !.pc = "RemoveIP", !.i = i, !.err = err]

AddCIDRCallStep(s, m, c, ctx, caller, fault) ==
    CASE c.pc = "Lock" ->
            IF c.cidr \in DOMAIN s.managedCIDRs
            THEN Outcome(s, Done(c, Err("CIDR already managed", c.cidr), <<>>), m)
            ELSE LET p == ParseCIDR(c.cidr)
                 IN  Outcome(s, [c EXCEPT !.pc = "AddIP", !.i = 1, !.addedIPs = <<>>,
                                          !.ips = Slice(Walk(p.ipNet,
                                                       cloneIP(Mask(p.ip, p.ipNet.Mask))))],
                             [m EXCEPT !.writer = caller])
      [] c.pc = "AddIP" ->
            IF ctxErr(ctx) # Nil
            THEN LET b == AddCIDRRollbackFrom(c, 1, ctxErr(ctx))
                 IN  Outcome(s, b, IF b.pc = "done" THEN Unlocked ELSE m)
            ELSE LET ipStr == IPString(c.ips[c.i])
                     r     == Faulty(fault, s, StorageAddIP(s, ctx, ipStr))
                     added == IF r.err = Nil THEN Append(c.addedIPs, ipStr) ELSE c.addedIPs
                     cl    == [Logged(c, "AddIP", ipStr, r.err) EXCEPT !.addedIPs = added]
                 IN  IF r.err # Nil /\ ~IsAlreadyAllocatedErr(r.err)
                     THEN LET b == AddCIDRRollbackFrom(cl, 1, r.err)
                          IN  Outcome(r.s, b, IF b.pc = "done" THEN Unlocked ELSE m)
                     ELSE IF c.i < Len(c.ips)
                     THEN Outcome(r.s, [cl EXCEPT !.i = c.i + 1], m)
                     ELSE Outcome([r.s EXCEPT !.managedCIDRs =
                                      MapPut(@, c.cidr,
                                             [CIDR |-> c.cidr,
                                              Description |-> c.description,
                                              IPNet |-> ParseCIDR(c.cidr).ipNet])],
                                  Done(cl, Nil, <<>>), Unlocked)
      [] c.pc = "RemoveIP" ->
            LET r == Faulty(fault, s, StorageRemoveIP(s, ctx, c.addedIPs[c.i]))
                b == AddCIDRRollbackFrom(Logged(c, "RemoveIP", c.addedIPs[c.i], r.err),
                                         c.i + 1, c.err)
            IN  Outcome(r.s, b, IF b.pc = "done" THEN Unlocked ELSE m)

\* A mutation of RemoveCIDRFrom: the lock is kept when the call returns
RemoveCIDRFromLocked(s, m, c, i) ==
    IF i > Len(c.ips)
    THEN Outcome([s EXCEPT !.managedCIDRs = MapDelete(@, c.cidr)], Done(c, Nil, <<>>), m)
    ELSE Outcome(s, [c EXCEPT !.pc = "IsIPAvailable", !.i = i], m)

\* RemoveCIDR's loop from index i: the next address is looked up, or the walk is over,
\* the registry entry is deleted and the lock released
RemoveCIDRFrom(s, m, c, i) ==
    IF i > Len(c.ips)
    THEN Outcome([s EXCEPT !.managedCIDRs = MapDelete(@, c.cidr)], Done(c, Nil, <<>>),
                 Unlocked)
    ELSE Outcome(s, [c EXCEPT !.pc = "IsIPAvailable", !.i = i], m)

RemoveCIDRStep(s, m, c, ctx, caller, fault) ==
    CASE c.pc = "Lock" ->
            IF c.cidr \notin DOMAIN s.managedCIDRs
            THEN Outcome(s, Done(c, Err("CIDR not managed", c.cidr), <<>>), m)
            ELSE LET cidrInfo == s.managedCIDRs[c.cidr]
                 IN  RemoveCIDRFrom(s, [m EXCEPT !.writer = caller],
                         [c EXCEPT !.ips = Slice(Walk(cidrInfo.IPNet,
                                       cloneIP(Mask(cidrInfo.IPNet.IP, cidrInfo.IPNet.Mask))))],
                         1)
      [] c.pc = "IsIPAvailable" ->
            IF ctxErr(ctx) # Nil THEN Outcome(s, Done(c, ctxErr(ctx), <<>>), Unlocked)
            ELSE LET ipStr == IPString(c.ips[c.i])
                     a     == FaultyQuery(fault, IsIPAvailable(s, ctx, ipStr))
                     cl    == Logged(c, "IsIPAvailable", ipStr, a.err)
                 IN  IF a.err # Nil THEN Outcome(s, Done(cl, a.err, <<>>), Unlocked)
                     ELSE IF a.val THEN Outcome(s, [cl EXCEPT !.pc = "RemoveIP"], m)
                     ELSE RemoveCIDRFrom(s, m, cl, c.i + 1)
      [] c.pc = "RemoveIP" ->
            LET ipStr == IPString(c.ips[c.i])
                r     == Faulty(fault, s, StorageRemoveIP(s, ctx, ipStr))
                cl    == Logged(c, "RemoveIP", ipStr, r.err)
            IN  IF r.err # Nil THEN Outcome(r.s, Done(cl, r.err, <<>>), Unlocked)
                ELSE RemoveCIDRFrom(r.s, m, cl, c.i + 1)

\* A mutation of Blocked: CIDRGuardian.mu makes nobody wait
BlockedNever(p) == FALSE

\* The call of caller p waits for CIDRGuardian.mu
Blocked(p) ==
    \/ calls[p].pc = "Lock" /\ (mu.writer # 0 \/ mu.readers # {})
    \/ calls[p].pc = "RLock" /\ mu.writer # 0

\* No caller has called: the calls made until now have run one after the other
AllIdle == \A p \in Procs : calls[p].pc = "idle"

\* The step of caller p gave the outcome o
Stepped(p, o) ==
    /\ last.op = "none"
    /\ available' = o.s.available
    /\ allocated' = o.s.allocated
    /\ managedCIDRs' = o.s.managedCIDRs
    /\ calls' = [calls EXCEPT ![p] = o.c]
    /\ mu' = o.mu
    /\ UNCHANGED <<last, prev, ctxDone>>

\* The call caller p makes: its arguments and the state it is made in
Begun(op, pc, a) ==
    [Idle EXCEPT !.op = op, !.pc = pc, !.cidr = a.cidr, !.ip = a.ip, !.bits = a.bits,
                 !.description = a.description, !.pre = State]

CallerAllocateIP(ips, descriptions) ==
    \E p \in Procs, ctx \in Contexts, ip \in ips, description \in descriptions :
        /\ calls[p].pc = "idle"
        /\ LET r == DoAllocateIP(State, ctx, ip, description)
               c == Begun("AllocateIP", "AllocateIP", Args(ctx, <<>>, ip, 0, description))
           IN  Stepped(p, Outcome(r.s, Done(c, r.err, <<>>), mu))

CallerReleaseIP(ips) ==
    \E p \in Procs, ctx \in Contexts, ip \in ips :
        /\ calls[p].pc = "idle"
        /\ LET r == DoReleaseIP(State, ctx, ip)
               c == Begun("ReleaseIP", "DeallocateIP", Args(ctx, <<>>, ip, 0, <<>>))
           IN  Stepped(p, Outcome(r.s, Done(c, r.err, <<>>), mu))

CallerGetNextAvailableIP(descriptions) ==
    \E p \in Procs, ctx \in Contexts, description \in descriptions :
        /\ calls[p].pc = "idle"
        /\ Stepped(p, GetNextAvailableIPStep(State, mu,
                         Begun("GetNextAvailableIP", "GetAvailableIPs",
                               Args(ctx, <<>>, <<>>, 0, description)), ctx))

ContinueGetNextAvailableIP ==
    \E p \in Procs, ctx \in Contexts :
        /\ calls[p].op = "GetNextAvailableIP" /\ calls[p].pc # "done"
        /\ Stepped(p, GetNextAvailableIPStep(State, mu, calls[p], ctx))

CallerAllocateCIDR(prefixes, descriptions) ==
    \E p \in Procs, ctx \in Contexts, bits \in prefixes, description \in descriptions :
        /\ calls[p].pc = "idle"
        /\ Stepped(p, AllocateCIDRStep(State, mu,
                         Begun("AllocateCIDR", "GetAvailableIPs",
                               Args(ctx, <<>>, <<>>, bits, description)), ctx, FALSE))

ContinueAllocateCIDR ==
    \E p \in Procs, ctx \in Contexts :
        /\ calls[p].op = "AllocateCIDR" /\ calls[p].pc # "done"
        /\ Stepped(p, AllocateCIDRStep(State, mu, calls[p], ctx, FALSE))

CallerReleaseCIDR(cidrs) ==
    \E p \in Procs, ctx \in Contexts, cidr \in cidrs :
        /\ calls[p].pc = "idle"
        /\ Stepped(p, ReleaseCIDRStep(State, mu,
                         Begun("ReleaseCIDR", "GetAllocatedIPs",
                               Args(ctx, cidr, <<>>, 0, <<>>)), ctx, FALSE))

ContinueReleaseCIDR ==
    \E p \in Procs, ctx \in Contexts :
        /\ calls[p].op = "ReleaseCIDR" /\ calls[p].pc # "done"
        /\ ~Blocked(p)
        /\ Stepped(p, ReleaseCIDRStep(State, mu, calls[p], ctx, FALSE))

\* AddCIDR up to g.mu.Lock(): the context and the text are checked
CallerAddCIDR(cidrs, descriptions) ==
    \E p \in Procs, ctx \in Contexts, cidr \in cidrs, description \in descriptions :
        /\ calls[p].pc = "idle"
        /\ LET c == Begun("AddCIDR", "Lock", Args(ctx, cidr, <<>>, 0, description))
           IN  Stepped(p, Outcome(State,
                   IF ctxErr(ctx) # Nil THEN Done(c, ctxErr(ctx), <<>>)
                   ELSE IF ~ParseCIDR(cidr).ok
                   THEN Done(c, Err("invalid CIDR format", cidr), <<>>)
                   ELSE c, mu))

ContinueAddCIDR ==
    \E p \in Procs, ctx \in Contexts :
        /\ calls[p].op = "AddCIDR" /\ calls[p].pc # "done"
        /\ ~Blocked(p)
        /\ Stepped(p, AddCIDRCallStep(State, mu, calls[p], ctx, p, FALSE))

\* RemoveCIDR up to g.mu.Lock()
CallerRemoveCIDR(cidrs) ==
    \E p \in Procs, ctx \in Contexts, cidr \in cidrs :
        /\ calls[p].pc = "idle"
        /\ Stepped(p, Outcome(State,
                       Begun("RemoveCIDR", "Lock", Args(ctx, cidr, <<>>, 0, <<>>)), mu))

ContinueRemoveCIDR ==
    \E p \in Procs, ctx \in Contexts :
        /\ calls[p].op = "RemoveCIDR" /\ calls[p].pc # "done"
        /\ ~Blocked(p)
        /\ Stepped(p, RemoveCIDRStep(State, mu, calls[p], ctx, p, FALSE))

\* GetManagedCIDRs up to g.mu.RLock(): the context is checked
CallerGetManagedCIDRs ==
    \E p \in Procs, ctx \in Contexts :
        /\ calls[p].pc = "idle"
        /\ LET c == Begun("GetManagedCIDRs", "RLock", Args(ctx, <<>>, <<>>, 0, <<>>))
           IN  Stepped(p, Outcome(State,
                   IF ctxErr(ctx) # Nil THEN Done(c, ctxErr(ctx), <<>>) ELSE c, mu))

\* GetManagedCIDRs under the read lock: the descriptions of the registry are copied
ContinueGetManagedCIDRs ==
    \E p \in Procs :
        /\ calls[p].op = "GetManagedCIDRs" /\ calls[p].pc # "done"
        /\ ~Blocked(p)
        /\ Stepped(p, Outcome(State,
                       [Done(calls[p], Nil, <<>>) EXCEPT !.result =
                           [k \in DOMAIN managedCIDRs |-> managedCIDRs[k].Description]],
                       mu))

\* a is before b in the order of the addresses: bytewise, the first byte first
IPLess(a, b) ==
    \E i \in 1..4 : a[i] < b[i] /\ \A j \in 1..(i - 1) : a[j] = b[j]

\* The largest number of iterations of a walk that are taken one by one
MaxWalk == 260

\* The walk of a block begins:  for ip := cloneIP(ip.Mask(ipNet.Mask)); ...
\* calls[p].ip is the loop variable, calls[p].ips holds the address visited last
WalkBegin(cidrs) ==
    \E p \in Procs, cidr \in cidrs :
        /\ calls[p].pc = "idle"
        /\ LET n == ParseCIDR(cidr)
               c == Begun("walk", "Contains", Args("background", cidr, <<>>, 0, <<>>))
           IN  Stepped(p, Outcome(State,
                   [c EXCEPT !.ip = Slice(<<cloneIP(Mask(n.ip, n.ipNet.Mask))>>)[1]], mu))

\* One iteration of the walk:  ...; ipNet.Contains(ip); nextIP(ip) { visit ip }
\* or its end, when the loop variable has left the block
WalkStep ==
    \E p \in Procs :
        LET c == calls[p]
            n == ParseCIDR(c.cidr).ipNet
        IN  /\ c.op = "walk" /\ c.pc = "Contains" /\ c.i < MaxWalk
            /\ Stepped(p, Outcome(State,
                   IF Contains(n, c.ip)
                   THEN [c EXCEPT !.ips = <<c.ip>>, !.i = c.i + 1,
                                  !.ip = Slice(<<nextIP(c.ip)>>)[1]]
                   ELSE Done(c, Nil, <<>>), mu))

\* The iterations of the walk from its first address up to the address before m, an
\* address of the block: each visits one address and increments it, and every address
\* between the first one and m is in the block
WalkOn(marks) ==
    \E p \in Procs, m \in marks :
        LET c == calls[p]
            n == ParseCIDR(c.cidr).ipNet
        IN  /\ c.op = "walk" /\ c.pc = "Contains" /\ c.i = 0 /\ c.ips = <<>>
            /\ Contains(n, c.ip) /\ Contains(n, m) /\ IPLess(c.ip, m)
            /\ Stepped(p, Outcome(State, [c EXCEPT !.ip = m], mu))

\* The storage call a caller is about to make fails: the storage returns an error and
\* changes nothing, and the call goes on from that error
StorageFails ==
    \E p \in Procs, ctx \in Contexts :
        LET c == calls[p]
        IN  \/ /\ c.op = "AddCIDR" /\ c.pc \in {"AddIP", "RemoveIP"}
               /\ Stepped(p, AddCIDRCallStep(State, mu, c, ctx, p, TRUE))
            \/ /\ c.op = "RemoveCIDR" /\ c.pc \in {"IsIPAvailable", "RemoveIP"}
               /\ Stepped(p, RemoveCIDRStep(State, mu, c, ctx, p, TRUE))
            \/ /\ c.op = "AllocateCIDR"
               /\ c.pc \in {"IsIPAvailable", "AllocateIP", "RemoveIP", "DeallocateIP"}
               /\ Stepped(p, AllocateCIDRStep(State, mu, c, ctx, TRUE))
            \/ /\ c.op = "ReleaseCIDR" /\ c.pc \in {"AddIP", "DeallocateIP"}
               /\ Stepped(p, ReleaseCIDRStep(State, mu, c, ctx, TRUE))

-----------------------------------------------------------------------------
(* The two locks.  CIDRGuardian.mu is the variable mu; MemoryIPStorage.mu is  *)
(* held by the callers whose field storage is "Lock" or "RLock".  A storage   *)
(* method reads the context, takes MemoryIPStorage.mu, does its work and       *)
(* releases it on return; here the lock is taken in one step and the work and  *)
(* the release are the next step of the call.                                  *)

\* AddSingleIP up to g.mu.RLock(): the address is parsed
CallerAddSingleIP(ips) ==
    \E p \in Procs, ctx \in Contexts, ip \in ips :
        /\ calls[p].pc = "idle"
        /\ LET c == Begun("AddSingleIP", "RLock", Args(ctx, <<>>, ip, 0, <<>>))
           IN  Stepped(p, Outcome(State,
                   IF ParseIP(ip) = NoIP THEN Done(c, Err("invalid IP format", ip), <<>>)
                   ELSE c, mu))

\* AddSingleIP from g.mu.RLock(): the context is checked under the read lock, which is
\* kept until storage.AddIP has returned
AddSingleIPStep(s, m, c, ctx, caller) ==
    IF c.pc = "RLock"
    THEN IF ctxErr(ctx) # Nil THEN Outcome(s, Done(c, ctxErr(ctx), <<>>), m)
         ELSE Outcome(s, [c EXCEPT !.pc = "AddIP"],
                      [m EXCEPT !.readers = @ \cup {caller}])
    ELSE LET r == StorageAddIP(s, ctx, c.ip)
         IN  Outcome(r.s, Done(c, r.err, <<>>), [m EXCEPT !.readers = @ \ {caller}])

\* A call of an operation that goes to the storage first: AllocateIP, ReleaseIP,
\* GetNextAvailableIP, AllocateCIDR or ReleaseCIDR
CallerOfStorage(ips, prefixes, cidrs, descriptions) ==
    \E p \in Procs :
        /\ calls[p].pc = "idle"
        /\ \E c \in
              {Begun("AllocateIP", "AllocateIP", Args("background", <<>>, ip, 0, d)) :
                  ip \in ips, d \in descriptions}
              \cup {Begun("ReleaseIP", "DeallocateIP", Args("background", <<>>, ip, 0, <<>>)) :
                  ip \in ips}
              \cup {Begun("GetNextAvailableIP", "GetAvailableIPs",
                          Args("background", <<>>, <<>>, 0, d)) : d \in descriptions}
              \cup {Begun("AllocateCIDR", "GetAvailableIPs",
                          Args("background", <<>>, <<>>, bits, d)) :
                  bits \in prefixes, d \in descriptions}
              \cup {Begun("ReleaseCIDR", "GetAllocatedIPs",
                          Args("background", cidr, <<>>, 0, <<>>)) : cidr \in cidrs} :
              Stepped(p, Outcome(State, c, mu))

\* The lock of MemoryIPStorage.mu the next step of the call c takes: none when the step
\* is not a storage call, and none when the context is cancelled, which a storage method
\* finds out before it takes the lock
StorageMode(c, ctx) ==
    IF c.pc \in {"idle", "done"} \/ ctxErr(ctx) # Nil THEN "none"
    ELSE IF c.pc \in {"AddIP", "RemoveIP", "AllocateIP", "DeallocateIP"} THEN "Lock"
    ELSE IF c.pc \in {"IsIPAvailable", "GetAvailableIPs", "GetAllocatedIPs"} THEN "RLock"
    ELSE "none"

\* The caller p waits for MemoryIPStorage.mu in the given mode
StorageBlocked(p, mode) ==
    \/ mode = "Lock" /\ \E q \in Procs \ {p} : calls[q].storage # "none"
    \/ mode = "RLock" /\ \E q \in Procs \ {p} : calls[q].storage = "Lock"

\* Nobody holds MemoryIPStorage.mu
NoStorageHeld == \A p \in Procs : calls[p].storage = "none"

\* The caller p takes MemoryIPStorage.mu for its next storage call
AcquireStorageOf(p) ==
    \E ctx \in Contexts :
        /\ last.op = "none"
        /\ calls[p].storage = "none"
        /\ StorageMode(calls[p], ctx) # "none"
        /\ ~StorageBlocked(p, StorageMode(calls[p], ctx))
        /\ calls' = [calls EXCEPT ![p].storage = StorageMode(calls[p], ctx)]
        /\ UNCHANGED <<available, allocated, managedCIDRs, last, prev, ctxDone, mu>>

AcquireStorage == \E p \in Procs : AcquireStorageOf(p)

\* The next step of the call of caller p
StepOf(p, ctx) ==
    LET c == calls[p]
    IN  CASE c.op = "AddCIDR" -> AddCIDRCallStep(State, mu, c, ctx, p, FALSE)
          [] c.op = "RemoveCIDR" -> RemoveCIDRStep(State, mu, c, ctx, p, FALSE)
          [] c.op = "AddSingleIP" -> AddSingleIPStep(State, mu, c, ctx, p)
          [] c.op = "GetManagedCIDRs" ->
                Outcome(State,
                        [Done(c, Nil, <<>>) EXCEPT !.result =
                            [k \in DOMAIN managedCIDRs |-> managedCIDRs[k].Description]],
                        mu)
          [] c.op = "AllocateCIDR" -> AllocateCIDRStep(State, mu, c, ctx, FALSE)
          [] c.op = "ReleaseCIDR" -> ReleaseCIDRStep(State, mu, c, ctx, FALSE)
          [] c.op = "GetNextAvailableIP" -> GetNextAvailableIPStep(State, mu, c, ctx)
          [] c.op = "AllocateIP" ->
                LET r == DoAllocateIP(State, ctx, c.ip, c.description)
                IN  Outcome(r.s, Done(c, r.err, <<>>), mu)
          [] c.op = "ReleaseIP" ->
                LET r == DoReleaseIP(State, ctx, c.ip)
                IN  Outcome(r.s, Done(c, r.err, <<>>), mu)

\* The caller p takes the next step of its call: a storage call under
\* MemoryIPStorage.mu, which it releases, or a step on CIDRGuardian.mu
AdvanceOf(p) ==
    \E ctx \in Contexts :
        /\ calls[p].pc \notin {"idle", "done"}
        /\ IF StorageMode(calls[p], ctx) # "none"
           THEN calls[p].storage = StorageMode(calls[p], ctx)
           ELSE ~Blocked(p)
        /\ LET o == StepOf(p, ctx)
           IN  Stepped(p, [o EXCEPT !.c.storage = "none"])

Advance == \E p \in Procs : AdvanceOf(p)

\* AdvanceOf(p) is enabled: the call of caller p has not returned and its next step is a
\* storage call for which it holds MemoryIPStorage.mu, or a step on CIDRGuardian.mu
\* for which it need not wait
CanAdvance(p) ==
    /\ last.op = "none"
    /\ calls[p].pc \notin {"idle", "done"}
    /\ \E ctx \in Contexts :
          IF StorageMode(calls[p], ctx) # "none"
          THEN calls[p].storage = StorageMode(calls[p], ctx)
          ELSE ~Blocked(p)

-----------------------------------------------------------------------------
(* SQLIPStorage.  The variables available and allocated are the committed     *)
(* rows of the tables ip_available and ip_allocated.  A call is a transaction  *)
(* (BeginTx with the default options): each of its statements reads the        *)
(* committed rows, its writes are kept in the call (addedIPs: rows inserted    *)
(* into ip_available, ips: rows deleted from ip_available, al: rows inserted   *)
(* into ip_allocated) until Commit, and a statement that writes a row waits    *)
(* while another open transaction has written the row with the same key.      *)

\* The transaction of caller p waits for the row with the key ip of the table its next
\* statement writes
RowLocked(p, ip) ==
    \E q \in Procs \ {p} :
        /\ calls[q].pc \notin {"idle", "done"}
        /\ \/ /\ calls[p].pc \in {"InsertAvailable", "DeleteAvailable"}
              /\ ip \in Range(calls[q].addedIPs) \cup Range(calls[q].ips)
           \/ /\ calls[p].pc = "InsertAllocated"
              /\ ip \in DOMAIN calls[q].al

\* tx.Commit(): the rows the transaction of the call c has written become the committed
\* rows
Committed(s, c) ==
    [s EXCEPT !.available = (@ \ Range(c.ips)) \cup Range(c.addedIPs),
              !.allocated = [k \in DOMAIN @ \cup DOMAIN c.al |->
                                IF k \in DOMAIN c.al THEN c.al[k] ELSE @[k]]]

\* The call c without the rows its transaction has written: after Commit, or after the
\* deferred tx.Rollback()
Closed(c) == [c EXCEPT !.addedIPs = <<>>, !.ips = <<>>, !.al = EmptyMap]

\* SQLIPStorage.AddIP, one statement at a time:
\* SELECT COUNT(*) FROM ip_allocated, INSERT INTO ip_available ... ON CONFLICT DO NOTHING,
\* Commit
SQLAddIPStep(s, m, c) ==
    CASE c.pc = "SelectAllocated" ->
            IF c.ip \in DOMAIN s.allocated
            THEN Outcome(s, Done(Closed(c), Err("IP already allocated", c.ip), <<>>), m)
            ELSE Outcome(s, [c EXCEPT !.pc = "InsertAvailable"], m)
      [] c.pc = "InsertAvailable" ->
            Outcome(s, [c EXCEPT !.pc = "Commit",
                                 !.addedIPs = IF c.ip \in s.available THEN <<>>
                                              ELSE <<c.ip>>], m)
      [] c.pc = "Commit" ->
            Outcome(Committed(s, c), Done(Closed(c), Nil, <<>>), m)

\* SQLIPStorage.AllocateIP, one statement at a time:
\* SELECT COUNT(*) FROM ip_available, DELETE FROM ip_available, INSERT INTO ip_allocated
\* (which fails on a row with the same key), Commit
SQLAllocateIPStep(s, m, c) ==
    CASE c.pc = "SelectAvailable" ->
            IF c.ip \notin s.available
            THEN Outcome(s, Done(Closed(c), Err("IP not in available pool", c.ip), <<>>), m)
            ELSE Outcome(s, [c EXCEPT !.pc = "DeleteAvailable"], m)
      [] c.pc = "DeleteAvailable" ->
            Outcome(s, [c EXCEPT !.pc = "InsertAllocated",
                                 !.ips = IF c.ip \in s.available THEN <<c.ip>> ELSE <<>>], m)
      [] c.pc = "InsertAllocated" ->
            IF c.ip \in DOMAIN s.allocated
            THEN Outcome(s, Done(Closed(c), StorageFailure, <<>>), m)
            ELSE Outcome(s, [c EXCEPT !.pc = "Commit",
                                      !.al = [k \in {c.ip} |-> c.description]], m)
      [] c.pc = "Commit" ->
            Outcome(Committed(s, c), Done(Closed(c), Nil, <<>>), m)

\* A caller calls SQLIPStorage.AddIP or SQLIPStorage.AllocateIP: BeginTx
CallerSQL(ips, descriptions) ==
    \E p \in Procs, ip \in ips :
        /\ calls[p].pc = "idle"
        /\ \/ Stepped(p, Outcome(State,
                  Begun("SQLIPStorage.AddIP", "SelectAllocated",
                        Args("background", <<>>, ip, 0, <<>>)), mu))
           \/ \E d \in descriptions :
                 Stepped(p, Outcome(State,
                     Begun("SQLIPStorage.AllocateIP", "SelectAvailable",
                           Args("background", <<>>, ip, 0, d)), mu))

\* The next statement of a transaction
ContinueSQL ==
    \E p \in Procs :
        /\ calls[p].pc \notin {"idle", "done"}
        /\ ~RowLocked(p, calls[p].ip)
        /\ \/ /\ calls[p].op = "SQLIPStorage.AddIP"
              /\ Stepped(p, SQLAddIPStep(State, mu, calls[p]))
           \/ /\ calls[p].op = "SQLIPStorage.AllocateIP"
              /\ Stepped(p, SQLAllocateIPStep(State, mu, calls[p]))

\* A caller whose call has returned is free to call again
CallerFree ==
    \E p \in Procs :
        /\ calls[p].pc = "done"
        /\ Stepped(p, Outcome(State, Idle, mu))

-----------------------------------------------------------------------------
(* Spec: every operation on the pool 192.168.0.8 .. 192.168.0.11 *)

\* The addresses callers name
PoolIPs == {<<192, 168, 0, b>> : b \in 8..11}

\* A text that is neither an address nor a CIDR: "x"
Malformed == <<120>>

IPInputs == {IPString(ip) : ip \in PoolIPs} \cup {Malformed}

\* The largest prefix length given to AllocateCIDR (32 is the largest valid one)
MaxBits == 33

BitsInputs == 30..MaxBits

\* The CIDR texts given to AddCIDR, RemoveCIDR and ExpandPool:
\* "192.168.0.8/30" and "192.168.0.10/31" (inside the former)
PoolCIDRInputs ==
    {FormatCIDR(IPString(<<192, 168, 0, 8>>), 30),
     FormatCIDR(IPString(<<192, 168, 0, 10>>), 31),
     Malformed}

\* The CIDR texts given to ReleaseCIDR: every address as written with /30, /31 or /32
ReleaseCIDRInputs ==
    {FormatCIDR(IPString(ip), b) : ip \in PoolIPs, b \in {30, 31, 32}} \cup {Malformed}

\* The description callers give: "x"
Descriptions == {<<120>>}

Next ==
    \/ AddCIDR(PoolCIDRInputs, Descriptions)
    \/ RemoveCIDR(PoolCIDRInputs)
    \/ ExpandPool(PoolCIDRInputs)
    \/ AddSingleIP(IPInputs)
    \/ RemoveSingleIP(IPInputs)
    \/ AllocateIP(IPInputs, Descriptions)
    \/ ReleaseIP(IPInputs)
    \/ GetNextAvailableIP(Descriptions)
    \/ AllocateCIDR(BitsInputs, Descriptions)
    \/ ReleaseCIDR(ReleaseCIDRInputs)
    \/ GetUsedCIDRs

Spec == Init /\ [][Next]_vars

-----------------------------------------------------------------------------
(* SpecBlocks: "192.168.0.0/24" is registered and /30 blocks are allocated from it *)

\* "192.168.0.0/24"
Slash24 == FormatCIDR(IPString(<<192, 168, 0, 0>>), 24)

\* The descriptions given to AllocateCIDR: "x" and "y"
BlockDescriptions == {<<120>>, <<121>>}

\* The number of blocks allocated in a behaviour
MaxBlocks == 5

NextBlocks ==
    \/ AddCIDR({Slash24}, Descriptions)
    \/ AllocatedCount(State) < MaxBlocks /\ AllocateCIDR({30}, BlockDescriptions)

SpecBlocks == Init /\ [][NextBlocks]_vars

-----------------------------------------------------------------------------
(* SpecDescriptions: addresses 192.168.0.10 and 192.168.0.11 allocated one by one *)
(* and as blocks, with descriptions that hold the separator                       *)

PairIPInputs == {IPString(<<192, 168, 0, 10>>), IPString(<<192, 168, 0, 11>>)}

\* "x", "y - z" and "y - x"
RichDescriptions == {<<120>>, <<121>> \o Sep \o <<122>>, <<121>> \o Sep \o <<120>>}

PairCIDRInputs == {FormatCIDR(ip, b) : ip \in PairIPInputs, b \in {31, 32}}

NextDescriptions ==
    \/ AddSingleIP(PairIPInputs)
    \/ AllocateIP(PairIPInputs, RichDescriptions)
    \/ ReleaseIP(PairIPInputs)
    \/ AllocateCIDR({31, 32}, RichDescriptions)
    \/ ReleaseCIDR(PairCIDRInputs)
    \/ GetUsedCIDRs

SpecDescriptions == Init /\ [][NextDescriptions]_vars

-----------------------------------------------------------------------------
(* SpecCancel: every operation and query, before and after the callers' context *)
(* is cancelled                                                                  *)

\* "192.168.0.10/31" and "x"
CancelCIDRInputs == {FormatCIDR(IPString(<<192, 168, 0, 10>>), 31), Malformed}

\* "192.168.0.10" and "x"
CancelIPInputs == {IPString(<<192, 168, 0, 10>>), Malformed}

NextCancel ==
    \/ Cancel
    \/ AddCIDR(CancelCIDRInputs, Descriptions)
    \/ RemoveCIDR(CancelCIDRInputs)
    \/ ExpandPool(CancelCIDRInputs)
    \/ AddSingleIP(CancelIPInputs)
    \/ RemoveSingleIP(CancelIPInputs)
    \/ AllocateIP(CancelIPInputs, Descriptions)
    \/ ReleaseIP(CancelIPInputs)
    \/ GetNextAvailableIP(Descriptions)
    \/ AllocateCIDR({31, 32}, Descriptions)
    \/ ReleaseCIDR(CancelCIDRInputs)
    \/ GetUsedCIDRs
    \/ GetManagedCIDRs
    \/ GetAvailableCIDRs
    \/ GuardianAvailableCount
    \/ GuardianAllocatedCount
    \/ String

SpecCancel == Init /\ [][NextCancel]_vars

-----------------------------------------------------------------------------
(* SpecRegistry: one block registered under the texts "192.168.0.8/30" and *)
(* "192.168.0.9/30" (host bits set)                                        *)

RegistryCIDRInputs ==
    {FormatCIDR(IPString(<<192, 168, 0, 8>>), 30), FormatCIDR(IPString(<<192, 168, 0, 9>>), 30)}

RegistryIPInputs == {IPString(<<192, 168, 0, 8>>), IPString(<<192, 168, 0, 9>>)}

NextRegistry ==
    \/ AddCIDR(RegistryCIDRInputs, Descriptions)
    \/ RemoveCIDR(RegistryCIDRInputs)
    \/ AllocateIP(RegistryIPInputs, Descriptions)
    \/ ReleaseIP(RegistryIPInputs)
    \/ GetManagedCIDRs

SpecRegistry == Init /\ [][NextRegistry]_vars

-----------------------------------------------------------------------------
(* SpecStorage: the methods of MemoryIPStorage on "192.168.0.10", "192.168.0.11" *)
(* and "x" (the storage takes any text), before and after the context is cancelled *)

StorageIPInputs == PairIPInputs \cup {Malformed}

NextStorage ==
    \/ Cancel
    \/ MemAddIP(StorageIPInputs)
    \/ MemRemoveIP(StorageIPInputs)
    \/ MemAllocateIP(StorageIPInputs, Descriptions)
    \/ MemDeallocateIP(StorageIPInputs)

SpecStorage == Init /\ [][NextStorage]_vars

-----------------------------------------------------------------------------
(* SpecRace: callers of AllocateIP and GetNextAvailableIP race for the         *)
(* addresses 192.168.0.8 and 192.168.0.9, which earlier calls have added       *)

CallerDescriptions == {<<120>>, <<121>>}

NextRace ==
    \/ AllIdle /\ AddSingleIP(PairIPInputs)
    \/ AllIdle /\ AllocateIP(PairIPInputs, Descriptions)
    \/ AllIdle /\ ReleaseIP(PairIPInputs)
    \/ CallerAllocateIP(PairIPInputs, CallerDescriptions)
    \/ CallerGetNextAvailableIP(CallerDescriptions)
    \/ ContinueGetNextAvailableIP

SpecRace == Init /\ [][NextRace]_vars

-----------------------------------------------------------------------------
(* SpecAllocators: callers of AllocateCIDR alone run concurrently on the pool  *)
(* 192.168.0.8 .. 192.168.0.11, of which earlier calls have allocated some     *)
(* addresses                                                                   *)

NextAllocators ==
    \/ AllIdle /\ AddCIDR({FormatCIDR(IPString(<<192, 168, 0, 8>>), 30)}, Descriptions)
    \/ AllIdle /\ AllocateIP({IPString(ip) : ip \in PoolIPs}, Descriptions)
    \/ CallerAllocateCIDR(BitsInputs, Descriptions)
    \/ ContinueAllocateCIDR

SpecAllocators == Init /\ [][NextAllocators]_vars

-----------------------------------------------------------------------------
(* SpecCallers: callers of AddCIDR, AllocateCIDR, ReleaseCIDR, AllocateIP,     *)
(* ReleaseIP and GetNextAvailableIP run concurrently on the pool               *)
(* 192.168.0.8 .. 192.168.0.11.  A caller releases what has been allocated:    *)
(* ReleaseCIDR is given the text of a block that AllocateCIDR has returned,    *)
(* ReleaseIP an address allocated by AllocateIP or GetNextAvailableIP.         *)

\* The CIDR texts of the blocks allocated in s: the allocated addresses whose description
\* starts with "<address>/<p> - "
AllocatedBlocks(s) ==
    {c \in {a \o <<47>> \o Itoa(p) : a \in DOMAIN s.allocated, p \in 30..32} :
        LET d == s.allocated[SubSeq(c, 1, StrIndex(c, <<47>>) - 1)]
        IN  Len(d) >= Len(c) + 3 /\ SubSeq(d, 1, Len(c) + 3) = c \o Sep}

\* The addresses allocated in s one by one
AllocatedSingly(s) ==
    {a \in DOMAIN s.allocated :
        \A c \in AllocatedBlocks(s) : SubSeq(c, 1, StrIndex(c, <<47>>) - 1) # a}

\* The blocks allocated that no call of AllocateCIDR is still taking
ReturnedBlocks ==
    {c \in AllocatedBlocks(State) :
        \A p \in Procs : ~(/\ calls[p].op = "AllocateCIDR" /\ calls[p].pc # "done"
                            /\ calls[p].cidr = c)}

CallerCIDRInputs ==
    {FormatCIDR(IPString(<<192, 168, 0, 8>>), 30),
     FormatCIDR(IPString(<<192, 168, 0, 10>>), 31)}

NextCallers ==
    \/ AllIdle /\ AddCIDR(CallerCIDRInputs, Descriptions)
    \/ AllIdle /\ AllocateCIDR({30, 31}, Descriptions)
    \/ CallerAddCIDR(CallerCIDRInputs, Descriptions)
    \/ ContinueAddCIDR
    \/ CallerAllocateCIDR({30, 31, 32}, Descriptions)
    \/ ContinueAllocateCIDR
    \/ CallerReleaseCIDR(ReturnedBlocks)
    \/ ContinueReleaseCIDR
    \/ CallerAllocateIP({IPString(ip) : ip \in PoolIPs}, Descriptions)
    \/ CallerReleaseIP(AllocatedSingly(State))
    \/ CallerGetNextAvailableIP(Descriptions)
    \/ ContinueGetNextAvailableIP

SpecCallers == Init /\ [][NextCallers]_vars

-----------------------------------------------------------------------------
(* SpecGaps: AllocateCIDR on the pool 192.168.0.8 .. 192.168.0.15 with         *)
(* addresses removed from it or allocated one by one                           *)

GapIPs == {<<192, 168, 0, b>> : b \in 8..15}

NextGaps ==
    \/ AddCIDR({FormatCIDR(IPString(<<192, 168, 0, 8>>), 29)}, Descriptions)
    \/ RemoveSingleIP({IPString(ip) : ip \in GapIPs})
    \/ AllocateIP({IPString(ip) : ip \in GapIPs}, Descriptions)
    \/ AllocateCIDR({30, 31}, Descriptions)

SpecGaps == Init /\ [][NextGaps]_vars

-----------------------------------------------------------------------------
(* SpecFaults: one call of AddCIDR, RemoveCIDR, AllocateCIDR or ReleaseCIDR    *)
(* advances one storage call at a time, alone, on the pool                     *)
(* 192.168.0.8 .. 192.168.0.11, which earlier calls have prepared; any storage *)
(* call may fail and the context may be cancelled between two of them          *)

NextFaults ==
    \/ AllIdle /\ AddCIDR(CallerCIDRInputs, Descriptions)
    \/ AllIdle /\ AddSingleIP({IPString(ip) : ip \in PoolIPs})
    \/ AllIdle /\ AllocateIP({IPString(ip) : ip \in PoolIPs}, Descriptions)
    \/ AllIdle /\ AllocateCIDR({30, 31}, Descriptions)
    \/ Cancel
    \/ AllIdle /\ CallerAddCIDR(CallerCIDRInputs, Descriptions)
    \/ ContinueAddCIDR
    \/ AllIdle /\ CallerRemoveCIDR(CallerCIDRInputs)
    \/ ContinueRemoveCIDR
    \/ AllIdle /\ CallerAllocateCIDR({30, 31}, Descriptions)
    \/ ContinueAllocateCIDR
    \/ AllIdle /\ CallerReleaseCIDR(AllocatedBlocks(State))
    \/ ContinueReleaseCIDR
    \/ StorageFails

SpecFaults == Init /\ [][NextFaults]_vars

-----------------------------------------------------------------------------
(* SpecLocks: callers of AddCIDR, RemoveCIDR and GetManagedCIDRs run           *)
(* concurrently on the pool 192.168.0.8 .. 192.168.0.11, which earlier calls   *)
(* have prepared                                                               *)

NextLocks ==
    \/ AllIdle /\ AddCIDR(CallerCIDRInputs, Descriptions)
    \/ AllIdle /\ AllocateIP({IPString(ip) : ip \in PoolIPs}, Descriptions)
    \/ CallerAddCIDR(CallerCIDRInputs, CallerDescriptions)
    \/ ContinueAddCIDR
    \/ CallerRemoveCIDR(CallerCIDRInputs)
    \/ ContinueRemoveCIDR
    \/ CallerGetManagedCIDRs
    \/ ContinueGetManagedCIDRs

SpecLocks == Init /\ [][NextLocks]_vars

-----------------------------------------------------------------------------
(* SpecWalk: the walk of a block, one iteration at a time, for blocks at the   *)
(* end of the address space, the two halves of it and the whole of it          *)

\* "0.0.0.0/0", "128.0.0.0/1", "0.0.0.0/1", "255.255.255.0/24", "255.255.255.252/30",
\* "255.255.255.255/32", "0.0.0.0/32", "192.168.0.8/30"
WalkCIDRInputs ==
    {FormatCIDR(IPString(<<0, 0, 0, 0>>), 0),
     FormatCIDR(IPString(<<128, 0, 0, 0>>), 1),
     FormatCIDR(IPString(<<0, 0, 0, 0>>), 1),
     FormatCIDR(IPString(<<255, 255, 255, 0>>), 24),
     FormatCIDR(IPString(<<255, 255, 255, 252>>), 30),
     FormatCIDR(IPString(<<255, 255, 255, 255>>), 32),
     FormatCIDR(IPString(<<0, 0, 0, 0>>), 32),
     FormatCIDR(IPString(<<192, 168, 0, 8>>), 30)}

\* The addresses a long walk is taken up to: the last ones of the two halves of the
\* address space and addresses before a carry
WalkMarks ==
    {<<255, 255, 255, 252>>, <<127, 255, 255, 253>>, <<0, 255, 255, 254>>,
     <<128, 0, 255, 254>>, <<255, 255, 255, 254>>}

NextWalk ==
    \/ AllIdle /\ WalkBegin(WalkCIDRInputs)
    \/ WalkOn(WalkMarks)
    \/ WalkStep

SpecWalk == Init /\ [][NextWalk]_vars

-----------------------------------------------------------------------------
(* SpecFair: callers run any of AddCIDR, RemoveCIDR, AddSingleIP,              *)
(* GetManagedCIDRs, AllocateIP, ReleaseIP, GetNextAvailableIP, AllocateCIDR    *)
(* and ReleaseCIDR concurrently on the addresses 192.168.0.10 and              *)
(* 192.168.0.11, with both locks taken step by step.  Every caller that can    *)
(* take a step or a lock eventually does.                                      *)

FairCIDRInputs == {FormatCIDR(IPString(<<192, 168, 0, 10>>), 31)}

NextFair ==
    \/ AllIdle /\ AddCIDR(FairCIDRInputs, Descriptions)
    \/ AllIdle /\ AllocateCIDR({31}, Descriptions)
    \/ NoStorageHeld /\ Cancel
    \/ CallerAddCIDR(FairCIDRInputs, Descriptions)
    \/ CallerRemoveCIDR(FairCIDRInputs)
    \/ CallerAddSingleIP({IPString(<<192, 168, 0, 10>>)})
    \/ CallerGetManagedCIDRs
    \/ CallerOfStorage({IPString(<<192, 168, 0, 10>>)}, {31}, FairCIDRInputs, Descriptions)
    \/ AcquireStorage
    \/ Advance

\* Weak fairness of the steps of each caller: a caller that can take
\* MemoryIPStorage.mu takes it, and a caller whose next step is enabled takes it (weak
\* fairness of AdvanceOf(p), its enabling condition written out as CanAdvance(p))
SpecFair ==
    /\ Init /\ [][NextFair]_vars
    /\ \A p \in Procs :
          /\ WF_vars(AcquireStorageOf(p))
          /\ ([]<>(~CanAdvance(p)) \/ []<><<AdvanceOf(p)>>_vars)

-----------------------------------------------------------------------------
(* SpecSQL: callers of SQLIPStorage.AddIP and SQLIPStorage.AllocateIP on the   *)
(* addresses 192.168.0.10 and 192.168.0.11, their transactions interleaving    *)
(* statement by statement                                                      *)

NextSQL ==
    \/ CallerSQL(PairIPInputs, Descriptions)
    \/ ContinueSQL
    \/ CallerFree

SpecSQL == Init /\ [][NextSQL]_vars

-----------------------------------------------------------------------------
(* SpecPool: AddCIDR, ExpandPool, AllocateCIDR and ReleaseCIDR alone, on the *)
(* pool 192.168.0.8 .. 192.168.0.11                                          *)

NextPool ==
    \/ AddCIDR(PoolCIDRInputs, Descriptions)
    \/ ExpandPool(PoolCIDRInputs)
    \/ AllocateCIDR(BitsInputs, Descriptions)
    \/ ReleaseCIDR(ReleaseCIDRInputs)

SpecPool == Init /\ [][NextPool]_vars

-----------------------------------------------------------------------------
(* Properties *)

\* The texts of the addresses of the block a CIDR text denotes
BlockOf(cidr) ==
    LET n == ParseCIDR(cidr).ipNet
    IN  {IPString(ip) : ip \in {a \in PoolIPs \cup {n.IP} : Contains(n, a)}}

\* The text of the network address of a CIDR text
NetworkAddr(cidr) == IPString(ParseCIDR(cidr).ipNet.IP)

\* Where the storage record s holds the address a
StatusOf(s, a) ==
    IF a \in DOMAIN s.allocated /\ a \in s.available THEN "both"
    ELSE IF a \in DOMAIN s.allocated THEN "Allocated"
    ELSE IF a \in s.available THEN "Available"
    ELSE "absent"

\* The addresses of the block of cidr that lie inside some CIDR registered in s
CoveredOf(s, cidr) ==
    {a \in BlockOf(cidr) :
        \E k \in DOMAIN s.managedCIDRs : a \in BlockOf(s.managedCIDRs[k].CIDR)}

\* The low 32 - p bits of the address are zero
LowBitsZero(ip, p) ==
    \A i \in 1..4 :
        LET hostBits == IF 8 * i - p >= 8 THEN 8 ELSE IF 8 * i - p <= 0 THEN 0 ELSE 8 * i - p
        IN  ip[i] % (2 ^ hostBits) = 0

\* C1: no address is in both Available and Allocated, in every state reachable by any
\* sequence of calls
C1_Disjoint == available \cap DOMAIN allocated = {}

\* C1 witness: a release has returned and the store holds available and allocated addresses
C1_Witness ==
    /\ last.op = "ReleaseIP" /\ last.err = Nil
    /\ DOMAIN allocated # {}
    /\ Cardinality(available) >= 2

\* C3 as stated: AllocateCIDR returning c followed by ReleaseCIDR(c) succeeds and restores
\* both counts, whatever the registry covers
C3_RoundTripAlways ==
    (last.op = "ReleaseCIDR" /\ prev.op = "AllocateCIDR" /\ last.cidr = prev.ret)
        => /\ last.err = Nil
           /\ AvailableCount(State) = AvailableCount(prev.pre)
           /\ AllocatedCount(State) = AllocatedCount(prev.pre)

\* C3 amended: AllocateCIDR returning c followed by ReleaseCIDR(c) succeeds and restores
\* AllocatedCount; AvailableCount is its value before the allocation less the addresses
\* of c, other than its network address, that no registered CIDR covers
C3_RoundTripCovered ==
    (last.op = "ReleaseCIDR" /\ prev.op = "AllocateCIDR" /\ last.cidr = prev.ret)
        => /\ last.err = Nil
           /\ AllocatedCount(State) = AllocatedCount(prev.pre)
           /\ AvailableCount(State) = AvailableCount(prev.pre)
                - Cardinality((BlockOf(last.cidr) \ CoveredOf(last.pre, last.cidr))
                              \ {NetworkAddr(last.cidr)})

\* C3 witness: a covered block of two or more addresses was allocated and released, and
\* the counts are restored
C3_Witness ==
    /\ last.op = "ReleaseCIDR" /\ prev.op = "AllocateCIDR" /\ last.cidr = prev.ret
    /\ Cardinality(BlockOf(last.cidr)) >= 2
    /\ CoveredOf(last.pre, last.cidr) = BlockOf(last.cidr)
    /\ AvailableCount(State) = AvailableCount(prev.pre)
    /\ AvailableCount(State) > AvailableCount(last.pre) + 1

\* C4 as stated: AddCIDR(c) followed by RemoveCIDR(c), no address of c allocated before,
\* leaves AvailableCount as it was before AddCIDR
C4_AddRemoveAlways ==
    (/\ last.op = "RemoveCIDR" /\ prev.op = "AddCIDR" /\ last.cidr = prev.cidr
     /\ BlockOf(prev.cidr) \cap DOMAIN prev.pre.allocated = {})
        => AvailableCount(State) = AvailableCount(prev.pre)

\* C4 amended: AddCIDR(c) followed by RemoveCIDR(c), no address of c allocated before,
\* leaves AvailableCount at its value before AddCIDR less the addresses of c that
\* were Available before AddCIDR
C4_AddRemoveDrains ==
    (/\ last.op = "RemoveCIDR" /\ prev.op = "AddCIDR" /\ last.cidr = prev.cidr
     /\ BlockOf(prev.cidr) \cap DOMAIN prev.pre.allocated = {})
        => /\ last.err = Nil
           /\ AvailableCount(State) = AvailableCount(prev.pre)
                - Cardinality(BlockOf(prev.cidr) \cap prev.pre.available)

\* C4 witness: a block none of whose addresses was in the store was added and removed,
\* with other addresses available, and the count is restored
C4_Witness ==
    /\ last.op = "RemoveCIDR" /\ prev.op = "AddCIDR" /\ last.cidr = prev.cidr
    /\ BlockOf(prev.cidr) \cap DOMAIN prev.pre.allocated = {}
    /\ BlockOf(prev.cidr) \cap prev.pre.available = {}
    /\ prev.pre.available # {}
    /\ AvailableCount(State) = AvailableCount(prev.pre)
    /\ AvailableCount(last.pre) = AvailableCount(prev.pre) + Cardinality(BlockOf(prev.cidr))

\* C5: a successful AllocateCIDR(p, d) returning c leaves the network address s of c
\* Allocated with the description c, " - ", d and not Available, every other address of
\* the block in neither set, AvailableCount lower by 2^(32-p) and AllocatedCount higher by 1
C5_AllocateCIDREffect ==
    (last.op = "AllocateCIDR" /\ last.err = Nil)
        => LET c == last.ret
               s == NetworkAddr(c)
           IN  /\ c = s \o <<47>> \o Itoa(last.bits)
               /\ StatusOf(State, s) = "Allocated"
               /\ allocated[s] = c \o <<32, 45, 32>> \o last.description
               /\ \A a \in BlockOf(c) \ {s} : StatusOf(State, a) = "absent"
               /\ Cardinality(BlockOf(c)) = 2 ^ (32 - last.bits)
               /\ AvailableCount(State) = AvailableCount(last.pre) - 2 ^ (32 - last.bits)
               /\ AllocatedCount(State) = AllocatedCount(last.pre) + 1

\* C5 witness: a /31 was allocated while addresses outside of it are Available and Allocated
C5_Witness ==
    /\ last.op = "AllocateCIDR" /\ last.err = Nil
    /\ last.bits = 31
    /\ AvailableCount(State) >= 1
    /\ AllocatedCount(State) >= 2

\* C6: AllocateCIDR(p, d) with a valid p fails and changes neither Available nor Allocated
\* when fewer than 2^(32-p) addresses are Available (not enough addresses) and when the
\* count suffices but no Available address has its low 32-p bits zero (no aligned start)
C6_AllocateCIDRRefuses ==
    (last.op = "AllocateCIDR" /\ last.bits \in 0..32)
        => LET size    == 2 ^ (32 - last.bits)
               short   == Cardinality(last.pre.available) < size
               aligned == {a \in last.pre.available : LowBitsZero(ParseIP(a), last.bits)}
           IN  /\ short => last.err.kind = "not enough IPs"
               /\ (~short /\ aligned = {}) => last.err.kind = "no aligned start IP"
               /\ (short \/ aligned = {})
                    => /\ last.err # Nil
                       /\ available = last.pre.available
                       /\ allocated = last.pre.allocated

\* C6 witness: AllocateCIDR(31) was refused with two addresses Available, neither aligned
C6_Witness ==
    /\ last.op = "AllocateCIDR" /\ last.bits = 31
    /\ last.err.kind = "no aligned start IP"
    /\ Cardinality(last.pre.available) = 2
    /\ available = last.pre.available

\* C7: ReleaseCIDR(c) with the network address of c not Allocated fails (not allocated)
\* and leaves Available, Allocated and the registry as they were
C7_ReleaseCIDRNotAllocated ==
    (/\ last.op = "ReleaseCIDR" /\ ParseCIDR(last.cidr).ok
     /\ NetworkAddr(last.cidr) \notin DOMAIN last.pre.allocated)
        => /\ last.err = Err("CIDR not allocated", last.cidr)
           /\ State = last.pre

\* C7 witness: ReleaseCIDR was refused for a block inside a registered CIDR whose
\* addresses are partly absent from the store
C7_Witness ==
    /\ last.op = "ReleaseCIDR" /\ last.err.kind = "CIDR not allocated"
    /\ CoveredOf(last.pre, last.cidr) = BlockOf(last.cidr)
    /\ \E a \in BlockOf(last.cidr) : StatusOf(last.pre, a) = "absent"
    /\ DOMAIN allocated # {}

\* The state of the address a in which the storage operation behind op succeeds
\* according to the sequence AddIP, AllocateIP, DeallocateIP, RemoveIP
StartsFrom(op) ==
    IF op = "AddSingleIP" THEN "absent"
    ELSE IF op = "AllocateIP" THEN "Available"
    ELSE IF op = "ReleaseIP" THEN "Allocated"
    ELSE "Available"

\* The state of the address a the storage operation behind op leaves it in
LeadsTo(op) ==
    IF op = "AddSingleIP" THEN "Available"
    ELSE IF op = "AllocateIP" THEN "Allocated"
    ELSE IF op = "ReleaseIP" THEN "Available"
    ELSE "absent"

SingleIPOps == {"AddSingleIP", "AllocateIP", "ReleaseIP", "RemoveSingleIP"}

\* C8 as stated: each of AddIP, AllocateIP, DeallocateIP, RemoveIP on an address a moves
\* a as in absent -> Available -> Allocated -> Available -> absent when a is in the
\* state the operation starts from, and returns an error in any other state
C8_LifecycleStrict ==
    (last.op \in SingleIPOps /\ ParseIP(last.ip) # NoIP)
        => IF StatusOf(last.pre, last.ip) = StartsFrom(last.op)
           THEN last.err = Nil /\ StatusOf(State, last.ip) = LeadsTo(last.op)
           ELSE last.err # Nil

\* C8 amended: as C8, except that AddIP on an Available address succeeds and leaves it
\* Available (AddIP fails only on an Allocated address); a failed operation leaves the
\* address where it was
C8_LifecycleIdempotentAdd ==
    (last.op \in SingleIPOps /\ ParseIP(last.ip) # NoIP)
        => IF \/ StatusOf(last.pre, last.ip) = StartsFrom(last.op)
              \/ last.op = "AddSingleIP" /\ StatusOf(last.pre, last.ip) = "Available"
           THEN last.err = Nil /\ StatusOf(State, last.ip) = LeadsTo(last.op)
           ELSE last.err # Nil /\ StatusOf(State, last.ip) = StatusOf(last.pre, last.ip)

\* C8 witness: the last step of the sequence, RemoveIP on an Available address, succeeded
\* on an address that an earlier release put back
C8_Witness ==
    /\ last.op = "RemoveSingleIP" /\ last.err = Nil
    /\ StatusOf(last.pre, last.ip) = "Available"
    /\ StatusOf(State, last.ip) = "absent"
    /\ DOMAIN allocated # {}

\* C9 as stated: on a pool whose Available set is {a} and whose Allocated set is empty,
\* AllocateCIDR(32, d) and AllocateIP(a, d) have the same outcome and leave the same
\* Available set and the same Allocated mapping
C9_SameAsAllocateIP ==
    (/\ last.op = "AllocateCIDR" /\ last.bits = 32
     /\ Cardinality(last.pre.available) = 1 /\ DOMAIN last.pre.allocated = {})
        => LET a == CHOOSE x \in last.pre.available : TRUE
               r == DoAllocateIP(last.pre, last.ctx, a, last.description)
           IN  /\ last.err = r.err
               /\ available = r.s.available
               /\ allocated = r.s.allocated

\* C9 amended: both succeed and leave Available empty and a alone in Allocated, but
\* AllocateCIDR(32, d) stores the description a, "/32 - ", d where AllocateIP stores d
C9_SameButDescription ==
    (/\ last.op = "AllocateCIDR" /\ last.bits = 32
     /\ Cardinality(last.pre.available) = 1 /\ DOMAIN last.pre.allocated = {})
        => LET a == CHOOSE x \in last.pre.available : TRUE
               r == DoAllocateIP(last.pre, last.ctx, a, last.description)
           IN  /\ last.err = Nil /\ r.err = Nil
               /\ available = {} /\ r.s.available = {}
               /\ DOMAIN allocated = {a} /\ DOMAIN r.s.allocated = {a}
               /\ r.s.allocated[a] = last.description
               /\ allocated[a] = a \o <<47, 51, 50, 32, 45, 32>> \o last.description
               /\ last.ret = a \o <<47, 51, 50>>

\* C9 witness: AllocateCIDR(32) succeeded on a singleton pool
C9_Witness ==
    /\ last.op = "AllocateCIDR" /\ last.bits = 32 /\ last.err = Nil
    /\ Cardinality(last.pre.available) = 1 /\ DOMAIN last.pre.allocated = {}
    /\ DOMAIN allocated = last.pre.available

\* "192.168.0."
Net192x168x0 == <<49, 57, 50, 46, 49, 54, 56, 46, 48, 46>>

\* "/30"
Slash30 == <<47, 51, 48>>

\* The observed call is AllocateCIDR(30, "x") on the pool as AddCIDR("192.168.0.0/24")
\* leaves an empty pool
FirstBlockCall ==
    /\ last.op = "AllocateCIDR" /\ last.bits = 30 /\ last.description = <<120>>
    /\ DOMAIN last.pre.managedCIDRs = {Net192x168x0 \o <<48, 47, 50, 52>>}
    /\ Cardinality(last.pre.available) = 256
    /\ last.pre.allocated = EmptyMap

\* The observed call is AllocateCIDR(30, "y") on the pool as the first call leaves it when
\* it returns "192.168.0.0/30"
SecondBlockCall ==
    /\ last.op = "AllocateCIDR" /\ last.bits = 30 /\ last.description = <<121>>
    /\ DOMAIN last.pre.managedCIDRs = {Net192x168x0 \o <<48, 47, 50, 52>>}
    /\ Cardinality(last.pre.available) = 252
    /\ DOMAIN last.pre.allocated = {Net192x168x0 \o <<48>>}
    /\ last.pre.allocated[Net192x168x0 \o <<48>>]
         = Net192x168x0 \o <<48>> \o Slash30 \o Sep \o <<120>>

\* C2 as stated: after AddCIDR("192.168.0.0/24") on an empty pool the first
\* AllocateCIDR(30, "x") returns "192.168.0.0/30" and the immediately following
\* AllocateCIDR(30, "y") returns "192.168.0.4/30"
C2_SecondIsNumericNext ==
    /\ FirstBlockCall => last.err = Nil /\ last.ret = Net192x168x0 \o <<48>> \o Slash30
    /\ SecondBlockCall => last.err = Nil /\ last.ret = Net192x168x0 \o <<52>> \o Slash30

\* C2 amended: after AddCIDR("192.168.0.0/24") on an empty pool the first
\* AllocateCIDR(30, "x") returns "192.168.0.0/30" and the immediately following
\* AllocateCIDR(30, "y") returns "192.168.0.100/30", the aligned Available address whose
\* text is first in string order; 192.168.0.4 .. 192.168.0.7 stay Available
C2_SecondIsStringFirst ==
    /\ FirstBlockCall => last.err = Nil /\ last.ret = Net192x168x0 \o <<48>> \o Slash30
    /\ SecondBlockCall =>
        /\ last.err = Nil
        /\ last.ret = Net192x168x0 \o <<49, 48, 48>> \o Slash30
        /\ DOMAIN allocated = {Net192x168x0 \o <<48>>, Net192x168x0 \o <<49, 48, 48>>}
        /\ {Net192x168x0 \o <<b>> : b \in 52..55} \subseteq available
        /\ Cardinality(available) = 248

\* C2 witness: the second AllocateCIDR(30, "y") has returned a block
C2_Witness == SecondBlockCall /\ last.err = Nil /\ Len(last.ret) > 0

\* The separator occurs in d at position i
SepAt(d, i) == i + 2 <= Len(d) /\ d[i] = 32 /\ d[i + 1] = 45 /\ d[i + 2] = 32

\* The entry k => v is what the description d gives: d is k, " - ", v and the
\* separator does not occur in d before the end of k
EntryOf(d, k, v) ==
    /\ d = k \o <<32, 45, 32>> \o v
    /\ \A i \in 1..Len(k) : ~SepAt(d, i)

\* C10: in every reachable state every entry GetUsedCIDRs returns comes from an Allocated
\* description that contains " - ", its key the text before the first occurrence and its
\* value the text after it; descriptions without the separator give no entry, so that the
\* result is empty when no Allocated description holds it
C10_UsedFromSeparated ==
    (last.op = "GetUsedCIDRs" /\ last.err = Nil)
        => /\ \A k \in DOMAIN last.used :
                \E a \in DOMAIN allocated : EntryOf(allocated[a], k, last.used[k])
           /\ (\A a \in DOMAIN allocated : \A i \in 1..Len(allocated[a]) : ~SepAt(allocated[a], i))
                => last.used = EmptyMap

\* C10 witness: GetUsedCIDRs has returned an entry while one Allocated description has no
\* separator and another has two
C10_Witness ==
    /\ last.op = "GetUsedCIDRs" /\ last.err = Nil
    /\ DOMAIN last.used # {}
    /\ \E a \in DOMAIN allocated : \A i \in 1..Len(allocated[a]) : ~SepAt(allocated[a], i)
    /\ \E a \in DOMAIN allocated :
          \E i, j \in 1..Len(allocated[a]) :
              i < j /\ SepAt(allocated[a], i) /\ SepAt(allocated[a], j)

\* C12 as stated: every operation and query invoked with a cancelled context returns the
\* cancellation error, whatever its other arguments, and changes neither the registry nor
\* the storage
C12_CancelledFirst ==
    (last.op # "none" /\ last.ctx = "canceled")
        => last.err = Err("context canceled", <<>>) /\ State = last.pre

\* C12 amended: every operation and query invoked with a cancelled context returns an
\* error and changes neither the registry nor the storage; the error is the cancellation
\* error except for RemoveCIDR of an unregistered CIDR (not managed), AddSingleIP of a
\* malformed address (invalid IP) and ExpandPool of a malformed CIDR (invalid CIDR)
C12_CancelledFails ==
    (last.op # "none" /\ last.ctx = "canceled")
        => /\ State = last.pre
           /\ last.err =
                IF last.op = "RemoveCIDR" /\ last.cidr \notin DOMAIN last.pre.managedCIDRs
                THEN Err("CIDR not managed", last.cidr)
                ELSE IF last.op = "AddSingleIP" /\ last.ip = <<120>>
                THEN Err("invalid IP format", last.ip)
                ELSE IF last.op = "ExpandPool" /\ last.cidr = <<120>>
                THEN Err("invalid CIDR format", last.cidr)
                ELSE Err("context canceled", <<>>)

\* C12 witness: RemoveCIDR of a registered CIDR was called with a cancelled context while
\* addresses are Available and Allocated
C12_Witness ==
    /\ last.op = "RemoveCIDR" /\ last.ctx = "canceled"
    /\ last.cidr \in DOMAIN managedCIDRs
    /\ last.err = Err("context canceled", <<>>)
    /\ available # {} /\ DOMAIN allocated # {}

\* C13: AddCIDR with a text that denotes an already-registered block (same network
\* address and prefix length, host bits set or not) fails with the duplicate error and
\* changes no state, and the registry never holds two entries for the same block
C13_CanonicalKey ==
    /\ \A k1, k2 \in DOMAIN managedCIDRs :
          managedCIDRs[k1].IPNet = managedCIDRs[k2].IPNet => k1 = k2
    /\ (/\ last.op = "AddCIDR" /\ ParseCIDR(last.cidr).ok
        /\ \E k \in DOMAIN last.pre.managedCIDRs :
              last.pre.managedCIDRs[k].IPNet = ParseCIDR(last.cidr).ipNet)
          => last.err = Err("CIDR already managed", last.cidr) /\ State = last.pre

MemOps ==
    {"MemoryIPStorage.AddIP", "MemoryIPStorage.RemoveIP",
     "MemoryIPStorage.AllocateIP", "MemoryIPStorage.DeallocateIP"}

\* C14: AddIP on an Allocated address, RemoveIP and AllocateIP on an address not in
\* Available, DeallocateIP on an address not in Allocated and any of the four called with
\* a cancelled context return an error, and every storage mutation that returns an error
\* leaves Available and Allocated unchanged
C14_FailedMutationNoChange ==
    last.op \in MemOps
        => /\ last.err # Nil
                => available = last.pre.available /\ allocated = last.pre.allocated
           /\ last.ctx = "canceled" => last.err = Err("context canceled", <<>>)
           /\ (last.op = "MemoryIPStorage.AddIP" /\ last.ip \in DOMAIN last.pre.allocated)
                => last.err # Nil
           /\ (/\ last.op \in {"MemoryIPStorage.RemoveIP", "MemoryIPStorage.AllocateIP"}
               /\ last.ip \notin last.pre.available)
                => last.err # Nil
           /\ (/\ last.op = "MemoryIPStorage.DeallocateIP"
               /\ last.ip \notin DOMAIN last.pre.allocated)
                => last.err # Nil

\* C14 witness: RemoveIP of an Available address was called with a cancelled context
\* while another address is Allocated
C14_Witness ==
    /\ last.op = "MemoryIPStorage.RemoveIP" /\ last.ctx = "canceled" /\ last.err # Nil
    /\ last.ip \in last.pre.available
    /\ DOMAIN allocated # {}

\* The blocks the storage record s holds as allocated: the texts a, "/", p for which the
\* address a is Allocated with a description that starts with a, "/", p, " - "
BlocksIn(s) ==
    {c \in {a \o <<47>> \o Itoa(p) : a \in DOMAIN s.allocated, p \in 0..32} :
        LET a == SubSeq(c, 1, StrIndex(c, <<47>>) - 1)
            d == s.allocated[a]
        IN  Len(d) >= Len(c) + 3 /\ SubSeq(d, 1, Len(c) + 3) = c \o <<32, 45, 32>>}

\* C15: after any sequence of AddCIDR, ExpandPool, AllocateCIDR and ReleaseCIDR calls, no
\* address of an allocated block other than its network address is Available or Allocated,
\* and no two allocated blocks overlap
C15_BlocksExclusive ==
    /\ \A c \in BlocksIn(State) :
          \A x \in BlockOf(c) \ {NetworkAddr(c)} : StatusOf(State, x) = "absent"
    /\ \A c1, c2 \in BlocksIn(State) : c1 # c2 => BlockOf(c1) \cap BlockOf(c2) = {}

\* The aligned blocks of prefix length p all of whose addresses are Available in s
FreeBlocks(s, p) ==
    {c \in {a \o <<47>> \o Itoa(p) : a \in s.available} :
        /\ LowBitsZero(ParseIP(SubSeq(c, 1, StrIndex(c, <<47>>) - 1)), p)
        /\ Cardinality(BlockOf(c)) = 2 ^ (32 - p)
        /\ BlockOf(c) \subseteq s.available}

\* C17: AllocateCIDR(p, d) succeeds whenever some aligned block of 2^(32-p) addresses is
\* fully Available, and returns an error only when there is none
C17_SucceedsIfBlockFree ==
    (last.op = "AllocateCIDR" /\ last.bits \in 0..32)
        => (last.err = Nil <=> FreeBlocks(last.pre, last.bits) # {})

\* C18: ReleaseCIDR(c) succeeds only when c is a block that AllocateCIDR returned and that
\* has not been released since; for any other c it fails and changes no state
C18_ReleaseOnlyAllocatedBlock ==
    (last.op = "ReleaseCIDR" /\ last.cidr \notin BlocksIn(last.pre))
        => last.err # Nil /\ State = last.pre

\* The text s comes before the text t in ascending string order: at the first position
\* where they differ s has the smaller byte, or s ends there
TextBefore(s, t) ==
    \E i \in 1..Len(t) :
        /\ \A j \in 1..(i - 1) : j <= Len(s) /\ s[j] = t[j]
        /\ i > Len(s) \/ s[i] < t[i]

\* C19: when AllocateCIDR(p, d) succeeds, the start address of the returned block is the
\* Available address aligned to /p whose text comes first in ascending string order, and
\* the returned text is that address followed by "/" and p
C19_StringFirstAligned ==
    (last.op = "AllocateCIDR" /\ last.err = Nil)
        => LET aligned == {a \in last.pre.available : LowBitsZero(ParseIP(a), last.bits)}
           IN  \E start \in aligned :
                  /\ \A b \in aligned \ {start} : TextBefore(start, b)
                  /\ last.ret = start \o <<47>> \o Itoa(last.bits)

\* C19 witness: AllocateCIDR returned the block at 192.168.0.10 while the aligned address
\* 192.168.0.8 was Available
C19_Witness ==
    /\ last.op = "AllocateCIDR" /\ last.err = Nil
    /\ <<49, 57, 50, 46, 49, 54, 56, 46, 48, 46, 56>> \in last.pre.available
    /\ LowBitsZero(<<192, 168, 0, 8>>, last.bits)
    /\ SubSeq(last.ret, 1, 12) = <<49, 57, 50, 46, 49, 54, 56, 46, 48, 46, 49, 48>>

\* The address a call of AllocateIP or GetNextAvailableIP asks the storage to allocate
TargetOf(c) ==
    IF c.op = "AllocateIP" THEN c.ip
    ELSE IF c.op = "GetNextAvailableIP" THEN c.startIP
    ELSE <<>>

\* The callers whose call has returned and asked for the address a
Askers(a) == {p \in Procs : calls[p].pc = "done" /\ TargetOf(calls[p]) = a}

Winners(a) == {p \in Askers(a) : calls[p].err = Nil}

\* C11: of the calls of AllocateIP and GetNextAvailableIP that ask for one address,
\* at most one succeeds; when the address was Available as one of them started,
\* exactly one succeeds, the others return an error, and the address is then
\* allocated with the description of the winner and is not Available.
C11_ExactlyOneWins ==
    \A a \in PairIPInputs :
        /\ Cardinality(Winners(a)) <= 1
        /\ (\E p \in Askers(a) : a \in calls[p].pre.available) =>
               /\ Cardinality(Winners(a)) = 1
               /\ a \notin available
               /\ a \in DOMAIN allocated
               /\ \A p \in Winners(a) : allocated[a] = calls[p].description

\* Two callers of GetNextAvailableIP have both read the Available address a as the
\* first of the list, with different descriptions; one has got it, the other an error
C11_Witness ==
    \E a \in PairIPInputs, p, q \in Procs :
        /\ p # q
        /\ calls[p].op = "GetNextAvailableIP" /\ calls[q].op = "GetNextAvailableIP"
        /\ calls[p].pc = "done" /\ calls[q].pc = "done"
        /\ calls[p].startIP = a /\ calls[q].startIP = a
        /\ a \in calls[p].pre.available /\ a \in calls[q].pre.available
        /\ calls[p].description # calls[q].description
        /\ calls[p].err = Nil /\ calls[q].err # Nil
        /\ allocated[a] = calls[p].description

\* The callers whose call of AllocateCIDR has returned a block
Allocators == {p \in Procs : /\ calls[p].op = "AllocateCIDR" /\ calls[p].pc = "done"
                             /\ calls[p].err = Nil}

\* C16: the blocks that concurrent calls of AllocateCIDR return are pairwise disjoint.
C16_ConcurrentBlocksDisjoint ==
    \A p, q \in Allocators :
        p # q => BlockOf(calls[p].ret) \cap BlockOf(calls[q].ret) = {}

\* Two calls of AllocateCIDR with different prefix lengths have read the same list of
\* Available addresses, and both have returned a block
C16_Witness ==
    \E p, q \in Allocators :
        /\ p # q
        /\ calls[p].bits # calls[q].bits
        /\ calls[p].pre = calls[q].pre
        /\ calls[p].ret # calls[q].ret

\* Every call of every caller has returned
AllReturned == \A p \in Procs : calls[p].pc \in {"idle", "done"}

\* The address a of a registered CIDR is in neither set and in no allocated block
Lost(a) ==
    /\ \E k \in DOMAIN managedCIDRs : a \in BlockOf(managedCIDRs[k].CIDR)
    /\ a \notin available
    /\ a \notin DOMAIN allocated
    /\ \A c \in BlocksIn(State) : a \notin BlockOf(c)

\* C20: once all concurrent calls of AddCIDR, AllocateCIDR, ReleaseCIDR, AllocateIP,
\* ReleaseIP and GetNextAvailableIP have returned, every address of every registered
\* CIDR is Available, or Allocated, or inside an allocated block.
C20_NoAddressLost ==
    AllReturned => \A a \in {IPString(ip) : ip \in PoolIPs} : ~Lost(a)

\* C24: RemoveCIDR of a CIDR that is not registered fails with "not managed" and changes
\* nothing; when RemoveCIDR succeeds the CIDR is no longer registered, no address of its
\* block is Available, and the Allocated mapping is what it was before the call.
C24_RemoveCIDREffect ==
    last.op = "RemoveCIDR" =>
        /\ last.cidr \notin DOMAIN last.pre.managedCIDRs =>
               /\ last.err = Err("CIDR not managed", last.cidr)
               /\ State = last.pre
        /\ last.err = Nil =>
               /\ last.cidr \in DOMAIN last.pre.managedCIDRs
               /\ last.cidr \notin DOMAIN managedCIDRs
               /\ BlockOf(last.cidr) \cap available = {}
               /\ allocated = last.pre.allocated

\* RemoveCIDR has succeeded on a block of which one address was Available and another
\* Allocated
C24_Witness ==
    /\ last.op = "RemoveCIDR" /\ last.err = Nil
    /\ BlockOf(last.cidr) \cap last.pre.available # {}
    /\ BlockOf(last.cidr) \cap DOMAIN last.pre.allocated # {}
    /\ BlockOf(last.cidr) \cap DOMAIN allocated # {}

\* The number the last three bytes of an address stand for (the addresses of the model
\* share their first byte)
AddressNumber(ip) == (ip[2] * 256 + ip[3]) * 256 + ip[4]

\* The addresses of [start, start + 2^(32-p)) that are not Available in s
Gaps(s, start, p) ==
    {a \in PoolIPs \cup GapIPs : /\ a[1] = ParseIP(start)[1]
                     /\ AddressNumber(a) >= AddressNumber(ParseIP(start))
                     /\ AddressNumber(a) < AddressNumber(ParseIP(start)) + 2 ^ (32 - p)
                     /\ IPString(a) \notin s.available}

\* C27: when an address of the block AllocateCIDR chooses is not Available, AllocateCIDR
\* fails with "IP unavailable" naming the lowest such address, and neither Available nor
\* Allocated changes.
C27_FirstGapReported ==
    last.op = "AllocateCIDR" =>
        LET b    == ChooseBlock(last.pre, last.ctx, last.bits)
            gaps == Gaps(last.pre, b.startIP, last.bits)
        IN  (b.err = Nil /\ gaps # {}) =>
                /\ \E a \in gaps :
                      /\ \A g \in gaps : AddressNumber(a) <= AddressNumber(g)
                      /\ last.err = Err("IP unavailable", IPString(a))
                /\ available = last.pre.available
                /\ allocated = last.pre.allocated

\* AllocateCIDR has chosen a block of four addresses of which two are not Available,
\* one absent from both sets and one Allocated
C27_Witness ==
    /\ last.op = "AllocateCIDR" /\ last.bits = 30
    /\ ChooseBlock(last.pre, last.ctx, last.bits).err = Nil
    /\ Cardinality(Gaps(last.pre, ChooseBlock(last.pre, last.ctx, last.bits).startIP, 30)) = 2
    /\ \E a, b \in Gaps(last.pre, ChooseBlock(last.pre, last.ctx, last.bits).startIP, 30) :
          /\ StatusOf(last.pre, IPString(a)) = "absent"
          /\ StatusOf(last.pre, IPString(b)) = "Allocated"
    /\ last.err.kind = "IP unavailable"

\* C28: when ReleaseCIDR succeeds, the network address of the CIDR is Available and not
\* Allocated, and every address of the block that lies inside a registered CIDR and was
\* not Allocated when the call started is Available.
C28_ReleaseCIDRRestores ==
    (last.op = "ReleaseCIDR" /\ last.err = Nil) =>
        /\ NetworkAddr(last.cidr) \in available
        /\ NetworkAddr(last.cidr) \notin DOMAIN allocated
        /\ \A a \in CoveredOf(last.pre, last.cidr) :
               a \notin DOMAIN last.pre.allocated => a \in available

\* ReleaseCIDR has succeeded on a block with an address that was in neither set, inside a
\* registered CIDR, and with another address that was Allocated
C28_Witness ==
    /\ last.op = "ReleaseCIDR" /\ last.err = Nil
    /\ \E a \in CoveredOf(last.pre, last.cidr) :
          /\ StatusOf(last.pre, a) = "absent"
          /\ a \in available
    /\ \E a \in BlockOf(last.cidr) \ {NetworkAddr(last.cidr)} :
          a \in DOMAIN last.pre.allocated

\* C29: ReleaseCIDR puts no address of the block into Available that no registered CIDR
\* covers, the network address included.
C29_UncoveredNotRestored ==
    (last.op = "ReleaseCIDR" /\ ParseCIDR(last.cidr).ok) =>
        \A a \in BlockOf(last.cidr) \ CoveredOf(State, last.cidr) :
            a \in available => a \in last.pre.available

\* The calls of op that have returned
ReturnedCalls(op) == {calls[p] : p \in {q \in Procs : calls[q].op = op /\ calls[q].pc = "done"}}

\* The entries of the log of the call c for the storage operation op, in order
LogOf(c, op) == SelectSeq(c.log, LAMBDA e : e[1] = op)

\* The addresses of the block of cidr in ascending order
Ascending(cidr) ==
    LET S == {ParseIP(a) : a \in BlockOf(cidr)}
    IN  [k \in 1..Cardinality(S) |->
            IPString(CHOOSE a \in S :
                Cardinality({b \in S : AddressNumber(b) < AddressNumber(a)}) = k - 1)]

\* C21: when AddCIDR succeeds the CIDR is registered with the description, AddIP has been
\* called on every address of the block in ascending order, every address of the block is
\* Available or Allocated, and the Allocated mapping is what it was before the call.
C21_AddCIDRSucceeds ==
    \A c \in ReturnedCalls("AddCIDR") :
        c.err = Nil =>
            /\ c.cidr \in DOMAIN managedCIDRs
            /\ managedCIDRs[c.cidr].Description = c.description
            /\ c.log = LogOf(c, "AddIP")
            /\ [k \in 1..Len(c.log) |-> c.log[k][2]] = Ascending(c.cidr)
            /\ \A a \in BlockOf(c.cidr) : a \in available \/ a \in DOMAIN allocated
            /\ allocated = c.pre.allocated

\* AddCIDR has succeeded on a block of four addresses of which one was Allocated, one
\* Available and one in neither set
C21_Witness ==
    \E c \in ReturnedCalls("AddCIDR") :
        /\ c.err = Nil /\ Cardinality(BlockOf(c.cidr)) = 4
        /\ \E a, b, d \in BlockOf(c.cidr) :
              /\ StatusOf(c.pre, a) = "Allocated"
              /\ StatusOf(c.pre, b) = "Available"
              /\ StatusOf(c.pre, d) = "absent"

\* The calls of AddCIDR that have returned after one of their AddIP calls failed for a
\* reason other than "already allocated"
FailedAdds ==
    {c \in ReturnedCalls("AddCIDR") :
        \E k \in 1..Len(c.log) :
            c.log[k][1] = "AddIP" /\ c.log[k][3] \notin {"nil", "IP already allocated"}}

\* AddCIDR has returned the error of its failed AddIP, has not registered the CIDR, and
\* after the failed AddIP has called RemoveIP on the addresses its AddIP calls succeeded on
Compensated(c) ==
    LET adds == LogOf(c, "AddIP")
        rems == LogOf(c, "RemoveIP")
    IN  /\ c.err.kind = adds[Len(adds)][3]
        /\ c.cidr \notin DOMAIN managedCIDRs
        /\ c.log = adds \o rems
        /\ [k \in 1..Len(rems) |-> rems[k][2]] = c.addedIPs
        /\ LET succeeded == SelectSeq(adds, LAMBDA e : e[3] = "nil")
           IN  c.addedIPs = [k \in 1..Len(succeeded) |-> succeeded[k][2]]

\* C22 as stated: after an AddIP failure inside AddCIDR the error is returned, the CIDR is
\* not registered, RemoveIP has been called on every address added earlier in the call,
\* and none of these addresses is Available.
C22_FailedAddIPUndone ==
    \A c \in FailedAdds :
        /\ Compensated(c)
        /\ \A k \in 1..Len(c.addedIPs) : c.addedIPs[k] \notin available

\* C22: after an AddIP failure inside AddCIDR the error is returned, the CIDR is not
\* registered, RemoveIP has been called on every address added earlier in the call, and
\* those of these addresses whose RemoveIP succeeded are not Available.
C22_FailedAddIPCompensated ==
    \A c \in FailedAdds :
        /\ Compensated(c)
        /\ \A k \in 1..Len(c.addedIPs) :
               LogOf(c, "RemoveIP")[k][3] = "nil" => c.addedIPs[k] \notin available

\* The third AddIP of an AddCIDR call has failed and the two addresses added before it
\* have been removed again
C22_Witness ==
    \E c \in FailedAdds :
        /\ Len(c.addedIPs) = 2
        /\ \A k \in 1..2 : LogOf(c, "RemoveIP")[k][3] = "nil"

\* C23: whenever AddCIDR returns an error, the registry, the Available set and the
\* Allocated mapping are what they were before the call.
C23_FailedAddCIDRNoChange ==
    \A c \in ReturnedCalls("AddCIDR") : c.err # Nil => State = c.pre

\* The calls of RemoveCIDR that a failed storage call or the cancellation has aborted
AbortedRemovals ==
    {c \in ReturnedCalls("RemoveCIDR") : c.err.kind \notin {"nil", "CIDR not managed"}}

\* C25: when RemoveCIDR is aborted during the walk, the CIDR is still registered, the
\* addresses before the point of the failure are not Available, the addresses from that
\* point on and the Allocated mapping are as before the call, and a later RemoveCIDR of
\* the CIDR completes the drain.
C25_AbortedRemovePartial ==
    \A c \in AbortedRemovals :
        /\ managedCIDRs = c.pre.managedCIDRs
        /\ c.cidr \in DOMAIN managedCIDRs
        /\ allocated = c.pre.allocated
        /\ \A k \in 1..Len(c.ips) :
               IF k < c.i THEN IPString(c.ips[k]) \notin available
               ELSE IPString(c.ips[k]) \in available <=>
                        IPString(c.ips[k]) \in c.pre.available
        /\ available \ BlockOf(c.cidr) = c.pre.available \ BlockOf(c.cidr)
        /\ LET r == DoRemoveCIDR(State, "background", c.cidr)
           IN  /\ r.err = Nil
               /\ c.cidr \notin DOMAIN r.s.managedCIDRs
               /\ r.s.available \cap BlockOf(c.cidr) = {}

\* RemoveCIDR has been aborted at the third address of a block of four Available
\* addresses: two are removed, two are left
C25_Witness ==
    \E c \in AbortedRemovals :
        /\ c.i = 3 /\ Len(c.ips) = 4
        /\ BlockOf(c.cidr) \subseteq c.pre.available
        /\ Cardinality(BlockOf(c.cidr) \cap available) = 2

\* The calls of AllocateCIDR that have returned after one of their RemoveIP calls failed
FailedRemovals ==
    {c \in ReturnedCalls("AllocateCIDR") :
        \E k \in 1..Len(c.log) : c.log[k][1] = "RemoveIP" /\ c.log[k][3] # "nil"}

\* C26: when a RemoveIP call fails inside AllocateCIDR, AllocateCIDR returns the error of
\* that call after a call of DeallocateIP on the start address; when that call succeeds
\* the start address is Available and not Allocated.
C26_StartAddressGivenBack ==
    \A c \in FailedRemovals :
        LET rems == LogOf(c, "RemoveIP")
            d    == c.log[Len(c.log)]
        IN  /\ c.err.kind = rems[Len(rems)][3]
            /\ c.log[Len(c.log) - 1] = rems[Len(rems)]
            /\ d[1] = "DeallocateIP" /\ d[2] = c.startIP
            /\ d[3] = "nil" => /\ c.startIP \in available
                               /\ c.startIP \notin DOMAIN allocated

\* AllocateCIDR has removed one address of its block of four, the next RemoveIP has
\* failed, and the deallocation of the start address has succeeded
C26_Witness ==
    \E c \in FailedRemovals :
        /\ Len(c.ips) = 4
        /\ Len(LogOf(c, "RemoveIP")) = 2
        /\ c.log[Len(c.log)] = <<"DeallocateIP", c.startIP, "nil">>
        /\ c.startIP \in available

\* The calls of ReleaseCIDR that have found the network address allocated and have
\* begun the walk
Releases ==
    {calls[p] : p \in {q \in Procs : /\ calls[q].op = "ReleaseCIDR"
                                       /\ calls[q].startIP # <<>>}}

\* C30: as long as ReleaseCIDR has not dealt with every address of the block, and after it
\* has returned an error from the walk, the network address is Allocated.
C30_NetworkAddressLast ==
    \A c \in Releases : c.i <= Len(c.ips) => c.startIP \in DOMAIN allocated

\* ReleaseCIDR has returned the error of an AddIP call on the third address of a block
\* of four, of which it has restored the second
C30_Witness ==
    \E c \in Releases :
        /\ c.pc = "done" /\ c.err # Nil
        /\ c.i = 3 /\ Len(c.ips) = 4
        /\ c.log[Len(c.log)][1] = "AddIP"
        /\ IPString(c.ips[2]) \in available \ c.pre.available
        /\ c.startIP \in DOMAIN allocated

-----------------------------------------------------------------------------
(* GetNextAvailableIP *)

\* The element of the non-empty set S of texts that is before every other one in Go's
\* string order
FirstText(S) == CHOOSE x \in S : \A y \in S \ {x} : StrLess(x, y)

\* C31: GetNextAvailableIP(d) with a live context fails and changes nothing when
\* Available is empty; otherwise it returns the Available address that is first in string
\* order, which is afterwards Allocated with d and not Available, and nothing else changes.
C31_GetNextAvailableIPEffect ==
    (last.op = "GetNextAvailableIP" /\ last.ctx = "background") =>
        IF last.pre.available = {}
        THEN last.err = Err("no available IP", <<>>) /\ State = last.pre
        ELSE LET a == FirstText(last.pre.available)
             IN  /\ last.err = Nil
                 /\ last.ret = a
                 /\ available = last.pre.available \ {a}
                 /\ allocated = MapPut(last.pre.allocated, a, last.description)
                 /\ managedCIDRs = last.pre.managedCIDRs

\* GetNextAvailableIP has returned "192.168.0.10" from a pool in which "192.168.0.8",
\* the numerically smaller address, was Available too
C31_Witness ==
    /\ last.op = "GetNextAvailableIP" /\ last.err = Nil
    /\ IPString(<<192, 168, 0, 8>>) \in last.pre.available
    /\ last.ret = IPString(<<192, 168, 0, 10>>)
    /\ last.ret \in DOMAIN allocated /\ last.ret \notin available
    /\ DOMAIN last.pre.allocated # {}

\* GetNextAvailableIP has failed on a pool with no Available address
C31_WitnessEmpty ==
    /\ last.op = "GetNextAvailableIP" /\ last.err # Nil /\ last.ctx = "background"
    /\ last.pre.available = {} /\ DOMAIN last.pre.allocated # {}

\* C32: a concurrent call of GetNextAvailableIP fails only if Available was empty at some
\* moment during the call.  While callers run, addresses only leave Available, so after
\* a failed call Available is empty.
C32_FailsOnlyWhenEmpty ==
    \A c \in ReturnedCalls("GetNextAvailableIP") : c.err # Nil => available = {}

-----------------------------------------------------------------------------
(* ExpandPool *)

\* C33: when ExpandPool(c) succeeds, c is registered, every address of the block of c is
\* Available or Allocated (not both), the Allocated mapping is what it was before the
\* call, and Available has gained the addresses of the block that are not Allocated.
C33_ExpandPoolEffect ==
    (last.op = "ExpandPool" /\ last.err = Nil) =>
        /\ last.cidr \in DOMAIN managedCIDRs
        /\ managedCIDRs[last.cidr].CIDR = last.cidr
        /\ \A k \in DOMAIN last.pre.managedCIDRs :
               k \in DOMAIN managedCIDRs /\ managedCIDRs[k] = last.pre.managedCIDRs[k]
        /\ \A a \in BlockOf(last.cidr) : StatusOf(State, a) \in {"Available", "Allocated"}
        /\ allocated = last.pre.allocated
        /\ available = last.pre.available \cup (BlockOf(last.cidr) \ DOMAIN allocated)

\* ExpandPool has succeeded on a block of four addresses of which one was Allocated, one
\* Available and one in neither set
C33_Witness ==
    /\ last.op = "ExpandPool" /\ last.err = Nil
    /\ Cardinality(BlockOf(last.cidr)) = 4
    /\ \E a, b, d \in BlockOf(last.cidr) :
          /\ StatusOf(last.pre, a) = "Allocated" /\ StatusOf(State, a) = "Allocated"
          /\ StatusOf(last.pre, b) = "Available"
          /\ StatusOf(last.pre, d) = "absent" /\ StatusOf(State, d) = "Available"

\* C34: whenever ExpandPool returns an error, the Available set, the Allocated mapping
\* and the registry are what they were before the call.
C34_FailedExpandPoolNoChange ==
    (last.op = "ExpandPool" /\ last.err # Nil) => State = last.pre

-----------------------------------------------------------------------------
(* The registry lock *)

\* The call of caller p is AddCIDR or RemoveCIDR inside its walk, between its first
\* storage call and its return
InWalk(p) ==
    /\ calls[p].op \in {"AddCIDR", "RemoveCIDR"}
    /\ calls[p].pc \in {"AddIP", "RemoveIP", "IsIPAvailable"}

\* The sets of two or more returned calls of AddCIDR with one text, made while it was
\* not registered, with no call of RemoveCIDR beside them
SameCIDRAdds ==
    {G \in {{p \in Procs : /\ calls[p].op = "AddCIDR" /\ calls[p].pc = "done"
                           /\ calls[p].cidr = k
                           /\ k \notin DOMAIN calls[p].pre.managedCIDRs} :
                k \in CallerCIDRInputs} :
        /\ Cardinality(G) >= 2
        /\ \A r \in Procs : calls[r].op # "RemoveCIDR"}

\* No two walks at a time: the caller inside a walk holds the lock for writing, while it
\* does nobody else is inside a walk, and the CIDR an AddCIDR call walks is not registered;
\* of the concurrent AddCIDR calls with one text one succeeds and the others are refused
WalksExclusive ==
    /\ \A p \in Procs : InWalk(p) =>
          /\ mu.writer = p /\ mu.readers = {}
          /\ \A q \in Procs \ {p} : ~InWalk(q)
          /\ calls[p].op = "AddCIDR" => calls[p].cidr \notin DOMAIN managedCIDRs
    /\ \A G \in SameCIDRAdds :
          \E p \in G :
              /\ calls[p].err = Nil
              /\ \A q \in G \ {p} :
                     calls[q].err = Err("CIDR already managed", calls[q].cidr)

\* A step in which a call of GetManagedCIDRs reads the registry is taken while no caller
\* holds the lock for writing, and it returns the registry as it is
ReadsOutsideWalks ==
    \A p \in Procs :
        (calls[p].op = "GetManagedCIDRs" /\ calls[p].pc = "RLock" /\ calls'[p].pc = "done")
            => /\ mu.writer = 0
               /\ \A q \in Procs : ~InWalk(q)
               /\ DOMAIN calls'[p].result = DOMAIN managedCIDRs

\* C35: AddCIDR and RemoveCIDR hold the registry's exclusive lock for their whole walk:
\* the storage calls of two concurrent calls never interleave, GetManagedCIDRs shows a
\* CIDR only after the AddCIDR call that registers it has walked all of its addresses,
\* and of two concurrent AddCIDR calls with the same text exactly one succeeds.
C35_WalksUnderExclusiveLock == []WalksExclusive /\ [][ReadsOutsideWalks]_vars

\* An AddCIDR call is in the middle of its walk while a second AddCIDR call with the same
\* text and a GetManagedCIDRs call wait for the lock
C35_Witness ==
    \E p, q \in Procs :
        /\ p # q /\ InWalk(p) /\ calls[p].op = "AddCIDR" /\ calls[p].i = 3
        /\ calls[q].pc \in {"Lock", "RLock"}

\* Two concurrent AddCIDR calls with the same text have returned
C35_WitnessSame == SameCIDRAdds # {}

\* A GetManagedCIDRs call that began while an AddCIDR call was in its walk has returned
\* the CIDR of that call
C35_WitnessRead ==
    \E p, q \in Procs :
        /\ calls[p].op = "GetManagedCIDRs" /\ calls[p].pc = "done"
        /\ calls[q].op = "AddCIDR" /\ calls[q].err = Nil /\ calls[q].pc = "done"
        /\ calls[q].cidr \in DOMAIN calls[p].result
        /\ calls[q].cidr \notin DOMAIN calls[p].pre.managedCIDRs
        /\ calls[p].pre.available # calls[q].pre.available

-----------------------------------------------------------------------------
(* GetUsedCIDRs and the blocks allocated *)

\* C36: the entries GetUsedCIDRs returns are the blocks AllocateCIDR has allocated, each
\* with its description: every key is the text of a block whose network address is
\* Allocated with the description AllocateCIDR writes, every such block has its entry,
\* and an address allocated one by one gives no entry, whatever its description.
C36_UsedAreAllocatedBlocks ==
    (last.op = "GetUsedCIDRs" /\ last.err = Nil) =>
        /\ DOMAIN last.used = AllocatedBlocks(State)
        /\ \A c \in DOMAIN last.used :
               allocated[SubSeq(c, 1, StrIndex(c, <<47>>) - 1)] = c \o Sep \o last.used[c]

-----------------------------------------------------------------------------
(* The walk of a block *)

\* The calls that walk a block
Walks == {calls[p] : p \in {q \in Procs : calls[q].op = "walk"}}

\* C37: the walk of a block visits its addresses in ascending order, each once, and
\* ends: the address the loop goes on to after a visit is either outside the block, which
\* ends the walk, or above the address visited before it.
C37_WalkAscends ==
    \A c \in Walks :
        (c.ips # <<>> /\ c.pc = "Contains" /\ Contains(ParseCIDR(c.cidr).ipNet, c.ip))
            => IPLess(c.ips[1], c.ip)

-----------------------------------------------------------------------------
(* The two locks: no deadlock *)

\* The callers whose call has not returned
Running == {p \in Procs : calls[p].pc \notin {"idle", "done"}}

\* The caller p holds CIDRGuardian.mu
HoldsRegistry(p) == mu.writer = p \/ p \in mu.readers

\* The caller p can take a lock or a step
CanMove(p) ==
    \/ CanAdvance(p)
    \/ \E ctx \in Contexts :
          /\ StorageMode(calls[p], ctx) # "none"
          /\ calls[p].storage = "none"
          /\ ~StorageBlocked(p, StorageMode(calls[p], ctx))

\* The locks are taken in one order and some caller can always move: a caller that holds
\* MemoryIPStorage.mu waits for nothing, no caller waits for a lock it holds, the locks
\* are held as their modes allow, a returned call holds no lock, and while calls are
\* running one of them can take a lock or a step
LocksInOrder ==
    /\ \A p \in Procs :
          /\ calls[p].storage # "none" => p \in Running /\ CanMove(p)
          /\ calls[p].pc \in {"Lock", "RLock"} => ~HoldsRegistry(p) /\ calls[p].storage = "none"
          /\ p \notin Running => ~HoldsRegistry(p)
          /\ calls[p].storage = "Lock" => \A q \in Procs \ {p} : calls[q].storage = "none"
    /\ mu.writer # 0 => mu.readers = {}
    /\ Running # {} => \E p \in Running : CanMove(p)

\* C38: no deadlock is reachable with callers running any mix of the operations: the two
\* locks are never waited for in a cycle nor by their holder, and every call returns.
C38_NoDeadlock ==
    /\ []LocksInOrder
    /\ \A p \in Procs : (calls[p].pc # "idle") ~> (calls[p].pc = "done")

\* A caller in AddCIDR holds CIDRGuardian.mu and waits for MemoryIPStorage.mu, which
\* another caller holds
C38_Witness ==
    \E p, q \in Procs :
        /\ mu.writer = p /\ calls[p].op = "AddCIDR" /\ calls[p].pc = "AddIP"
        /\ calls[p].storage = "none" /\ StorageBlocked(p, "Lock")
        /\ calls[q].storage # "none"

\* A caller in AddSingleIP holds CIDRGuardian.mu for reading and MemoryIPStorage.mu while
\* a caller of RemoveCIDR waits for CIDRGuardian.mu
C38_WitnessReader ==
    \E p, q \in Procs :
        /\ p \in mu.readers /\ calls[p].storage = "Lock"
        /\ calls[q].op = "RemoveCIDR" /\ calls[q].pc = "Lock" /\ Blocked(q)

-----------------------------------------------------------------------------
(* SQLIPStorage: concurrent transactions *)

\* C39: once the concurrent calls of SQLIPStorage.AddIP and SQLIPStorage.AllocateIP have
\* returned, no address has a row in both ip_available and ip_allocated.
C39_NeverInBothTables ==
    (\A p \in Procs : calls[p].pc \in {"idle", "done"})
        => available \cap DOMAIN allocated = {}

=============================================================================
